---- MODULE Spec2Model ----
(***************************************************************************)
(* Rental lifecycle of domain-sublease: the rental API routes              *)
(* (src/app/api/rentals), the Stripe webhook handlers                      *)
(* (src/app/api/webhooks/stripe), the listing routes (verification, update *)
(* creation and removal), the availability check, the registrars' DNS      *)
(* clients and the credential codec (lib/encryption), over the Prisma      *)
(* tables                                                                  *)
(* (listings, rentals, transactions), the Stripe checkout sessions and the *)
(* registrar's DNS zone.                                                   *)
(*                                                                         *)
(* Every handler is an async function; each `await` on the database, on    *)
(* Stripe or on the registrar is a point where another request can run.    *)
(* A handler is therefore a small process: `inflight` holds, for each      *)
(* running handler, its position (pc) and the values it has read so far.   *)
(***************************************************************************)
EXTENDS Integers, Sequences, FiniteSets, Bags, TLC

\* ---------------------------------------------------------------- bounds
NumListings == 1      \* listings in the database
MaxSessions == 2      \* checkout sessions opened by POST /api/rentals
MaxRentals == 2       \* rental rows ever created
MaxInflight == 2      \* handlers running at the same time
MaxRuns == 4          \* handler runs past their checks in one behaviour

\* ------------------------------------------------------- program constants
NoId == 0             \* null / undefined reference

Listings == 1..NumListings

\* Labels and names are character sequences so that the template literal
\* `${subdomain}.${listing.domainName}` and String.startsWith are computed.
DomainName == <<"e", "x">>
Subdomains == {<<"b">>, <<"b", "2">>}
RecordTypes == {"A", "CNAME"}
RecordValues == {"v1"}

\* rentals/route.ts:97  const fullDomain = `${subdomain}.${listing.domainName}`
FullDomainOf(subdomain, domainName) == subdomain \o <<".">> \o domainName

\* String.prototype.startsWith
StartsWith(s, prefix) ==
    /\ Len(prefix) <= Len(s)
    /\ SubSeq(s, 1, Len(prefix)) = prefix

\* String.prototype.toUpperCase on the record kinds a request can carry
ToUpperCase(t) ==
    CASE t = "a" -> "A"
      [] t = "cname" -> "CNAME"
      [] t = "paused" -> "PAUSED"
      [] t = "cloudflare" -> "CLOUDFLARE"
      [] OTHER -> t

\* lib/encryption encrypt(JSON.stringify(credentials)): the ciphertext of the
\* credentials (its random iv and salt are left out: no handler compares two
\* ciphertexts).
Encrypt(credentials) == <<"aes-256-gcm", credentials>>

VARIABLES
    listings,       \* prisma.domainListing rows
    rentals,        \* prisma.subdomainRental rows, id = index
    transactions,   \* prisma.transaction rows, id = index
    sessions,       \* Stripe checkout sessions, id = index
    zone,           \* registrar DNS records of each listing's zone
    inflight,       \* running handlers: a bag of process records
    last,           \* the returned run under observation, Idle while none is
    runs            \* handler runs that got past their checks so far

vars == <<listings, rentals, transactions, sessions, zone, inflight, last, runs>>

RentalIds == 1..Len(rentals)
TransactionIds == 1..Len(transactions)
SessionIds == 1..Len(sessions)

\* Values a handler has read: the event metadata or the rental row, the
\* joined listing's isVerified, and the rental's status at the time of the read.
NoSnap ==
    [listingId |-> NoId, subdomain |-> <<>>, fullDomain |-> <<>>,
     dnsRecordType |-> "undefined", dnsRecordValue |-> "undefined",
     isVerified |-> FALSE, status |-> "none"]

NoRecord == [name |-> <<>>, type |-> "undefined", content |-> "undefined"]

\* No handler: the blank process record.
Idle ==
    [op |-> "idle", pc |-> "idle", arg |-> NoId, rid |-> NoId, tid |-> NoId,
     pi |-> NoId, snap |-> NoSnap, target |-> NoRecord, dns |-> "none", calls |-> <<>>, resp |-> 0]

\* _count.subdomainRentals where status = 'ACTIVE'
ActiveCount(l) ==
    Cardinality({r \in RentalIds : rentals[r].listingId = l /\ rentals[r].status = "ACTIVE"})

Init ==
    /\ listings = [l \in Listings |->
            [exists |-> TRUE,
             domainName |-> DomainName,
             status |-> "ACTIVE",
             allowedRecordTypes |-> {"A"},
             maxSubdomainsAllowed |-> MaxRentals,
             isVerified |-> FALSE,
             verificationToken |-> "token",
             apiCredentialsEncrypted |-> Encrypt("k1")]]
    /\ rentals = <<>>
    /\ transactions = <<>>
    /\ sessions = <<>>
    /\ zone = [l \in Listings |-> {}]
    /\ inflight = EmptyBag
    /\ last = Idle
    /\ runs = 0

\* What a handler returns has no influence on any later step, so a behaviour
\* is followed either past a return (`last` stays blank) or up to it: then
\* the return is its final step and `last` shows the run as it ended.
Observing == last # Idle

\* A request or event is accepted: the run budget is not used up.
CanRun ==
    /\ ~Observing
    /\ runs < MaxRuns

\* A handler that will await can start: fewer than MaxInflight are running.
CanStart ==
    /\ CanRun
    /\ BagCardinality(inflight) < MaxInflight

\* The budget counts the runs that get past their checks; a run turned away
\* at once writes nothing and leaves the budget as it is.
Charge(turnedAway) ==
    runs' = IF turnedAway THEN runs ELSE runs + 1

\* What a returned run shows: the handler, its response status, the rows it
\* found or created (with the key it was called with; a checkout run always
\* shows the session of its event), the listing's
\* isVerified and the rental's status as it read them, and the registrar
\* calls it made.
Returned(proc) ==
    [Idle EXCEPT !.op = proc.op, !.pc = "done", !.resp = proc.resp,
                 !.arg = IF proc.rid = NoId /\ proc.op \notin {"checkout", "verify"}
                         THEN NoId
                         ELSE proc.arg,
                 !.rid = proc.rid, !.tid = proc.tid,
                 !.target = IF proc.op = "verify" THEN proc.target ELSE NoRecord,
                 !.dns = proc.dns, !.calls = proc.calls,
                 !.snap = [NoSnap EXCEPT !.isVerified = proc.snap.isVerified,
                                         !.status = proc.snap.status]]

\* The handler returns.
Return(proc) ==
    \E observed \in BOOLEAN : last' = IF observed THEN Returned(proc) ELSE Idle

\* The handler returns with `status` before any await.
Finish(proc, status) ==
    Return([proc EXCEPT !.pc = "done", !.resp = status])

\* A new handler run reaches its first await, or returns at once.
Start(proc) ==
    IF proc.pc = "done"
    THEN /\ inflight' = inflight
         /\ Return(proc)
    ELSE /\ inflight' = inflight (+) SetToBag({proc})
         /\ last' = Idle

\* The running handler `old` moves on to its next await, or returns.
Goto(old, proc) ==
    /\ ~Observing
    /\ IF proc.pc = "done"
       THEN /\ inflight' = inflight (-) SetToBag({old})
            /\ Return(proc)
       ELSE /\ inflight' = (inflight (-) SetToBag({old})) (+) SetToBag({proc})
            /\ last' = Idle

\* Listings are created alike, so they are numbered in the order of their
\* first use: a listing is verified, updated, deleted or rented from only
\* once every listing before it has been.
Used(l) ==
    \/ listings[l].isVerified
    \/ ~listings[l].exists
    \/ listings[l].status # "ACTIVE"
    \/ listings[l].apiCredentialsEncrypted # Encrypt("k1")
    \/ \E s \in SessionIds : sessions[s].listingId = l

InOrder(l) == \A k \in Listings : k < l => Used(k)

\* ------------------------------------------ POST /api/listings/:id/verify
\* '_domain-verification', shortened to its first and last characters
VerificationName == <<"_", "d", "n">>

VfInstructions_Blank(listing) ==
    [name |-> VerificationName, type |-> "TXT", content |-> "null"]

\* verify/route.ts:53-59  instructions: the record to publish
VfInstructions(listing) ==
    [name |-> VerificationName, type |-> "TXT", content |-> listing.verificationToken]

VfVerified_KeepToken(listing) == [listing EXCEPT !.isVerified = TRUE]

\* verify/route.ts:66-71  data: { isVerified: true, verificationToken: null }
VfVerified(listing) ==
    [listing EXCEPT !.isVerified = TRUE, !.verificationToken = "null"]

VfAlready_Never(listing) == FALSE

\* verify/route.ts:25  if (listing.isVerified): success, nothing else is done
VfAlready(listing) == listing.isVerified

\* findUnique, 404 when missing; already verified: success at once; no token:
\* 400; then createDNSProvider + verifyOwnership(listing.verificationToken):
\*   "throw"  createDNSProvider threw, no request was sent: 500
\*   "fail"   verifyOwnership answered {success: false}: 400
\*   "ok"     verifyOwnership answered {success: true}: the listing is set
\*            verified and its token cleared
\* One step: nothing the handler read is used by its update.
VerifyListing(l, outcome) ==
    /\ CanRun
    /\ InOrder(l)
    /\ LET listing == listings[l]
           proc == [Idle EXCEPT !.op = "verify",
                                !.arg = l,
                                !.snap = [NoSnap EXCEPT
                                    !.listingId = l,
                                    !.isVerified = listing.exists /\ listing.isVerified]]
           called == [proc EXCEPT !.dns = outcome, !.calls = <<"verifyOwnership">>]
       IN
       IF ~listing.exists THEN
            /\ Finish(proc, 404)
            /\ UNCHANGED listings
       ELSE IF VfAlready(listing) THEN
            /\ Finish(proc, 200)
            /\ UNCHANGED listings
       ELSE IF listing.verificationToken = "null" THEN
            /\ Finish(proc, 400)
            /\ UNCHANGED listings
       ELSE IF outcome = "throw" THEN
            /\ Finish([proc EXCEPT !.dns = outcome], 500)
            /\ UNCHANGED listings
       ELSE IF outcome = "fail" THEN
            /\ Finish([called EXCEPT !.target = VfInstructions(listing)], 400)
            /\ UNCHANGED listings
       ELSE
            /\ listings' = [listings EXCEPT ![l] = VfVerified(@)]
            /\ Finish(called, 200)
    /\ UNCHANGED <<rentals, transactions, sessions, zone, inflight, runs>>

\* ------------------------------------------------ PUT /api/listings/:id
\* Request bodies: new registrar credentials, or a new status.
ListingPutBodies ==
    {[apiCredentials |-> "k2", status |-> "undefined"],
     [apiCredentials |-> "undefined", status |-> "paused"]}

LpUpdateData_Unverify(listing, body) ==
    [listing EXCEPT
        !.apiCredentialsEncrypted =
            IF body.apiCredentials = "undefined" THEN @
            ELSE Encrypt(body.apiCredentials),
        !.isVerified = IF body.apiCredentials = "undefined" THEN @ ELSE FALSE,
        !.status = IF body.status = "undefined" THEN @ ELSE ToUpperCase(body.status)]

\* updateData: only the fields the body defines are written.
LpUpdateData(listing, body) ==
    [listing EXCEPT
        !.apiCredentialsEncrypted =
            IF body.apiCredentials = "undefined" THEN @
            ELSE Encrypt(body.apiCredentials),
        !.status = IF body.status = "undefined" THEN @ ELSE ToUpperCase(body.status)]

\* findUnique, 404 when missing; prisma.domainListing.update with updateData.
\* One step: the row read is only tested for existence.
UpdateListing(l, body) ==
    /\ CanRun
    /\ InOrder(l)
    /\ Charge(~listings[l].exists)
    /\ LET proc == [Idle EXCEPT !.op = "listingput",
                                !.snap = [NoSnap EXCEPT
                                    !.listingId = l,
                                    !.isVerified = listings[l].exists
                                                    /\ listings[l].isVerified]]
       IN
       IF ~listings[l].exists THEN
            /\ Finish(proc, 404)
            /\ UNCHANGED listings
       ELSE
            /\ listings' = [listings EXCEPT ![l] = LpUpdateData(@, body)]
            /\ Finish(proc, 200)
    /\ UNCHANGED <<rentals, transactions, sessions, zone, inflight>>

\* --------------------------------------------- DELETE /api/listings/:id
\* findUnique with the count of ACTIVE rentals: 404 when missing, 400 when
\* the count is positive.
DlStart(l) ==
    /\ CanStart
    /\ InOrder(l)
    /\ Charge(~listings[l].exists \/ ActiveCount(l) > 0)
    /\ LET proc == [Idle EXCEPT !.op = "listingdelete", !.arg = l,
                                !.snap = [NoSnap EXCEPT !.listingId = l]]
       IN
       IF ~listings[l].exists THEN Start([proc EXCEPT !.pc = "done", !.resp = 404])
       ELSE IF ActiveCount(l) > 0 THEN Start([proc EXCEPT !.pc = "done", !.resp = 400])
       ELSE Start([proc EXCEPT !.pc = "dl_delete"])
    /\ UNCHANGED <<listings, rentals, transactions, sessions, zone>>

\* prisma.domainListing.delete: the row is removed, and with it (cascading
\* deletes) the rental rows that refer to it; a row already removed makes
\* delete throw, which the handler answers with 500.
DlDelete ==
    \E proc \in BagToSet(inflight) :
        /\ proc.pc = "dl_delete"
        /\ IF listings[proc.arg].exists
           THEN /\ listings' = [listings EXCEPT ![proc.arg].exists = FALSE]
                /\ Goto(proc, [proc EXCEPT !.pc = "done", !.resp = 200])
           ELSE /\ UNCHANGED listings
                /\ Goto(proc, [proc EXCEPT !.pc = "done", !.resp = 500])
        /\ UNCHANGED <<rentals, transactions, sessions, zone, runs>>

\* ------------------------------------------------------ POST /api/rentals
\* Reads the listing and the active rentals, then opens a checkout session
\* whose metadata carries the request.  Nothing is written to the listing,
\* rental or transaction tables, so the reads and the session are one step.
InitiateRental(l, subdomain, dnsRecordType, dnsRecordValue) ==
    /\ CanRun
    /\ InOrder(l)
    /\ Len(sessions) < MaxSessions
    /\ LET proc == [Idle EXCEPT !.op = "initiate", !.arg = l,
                                !.snap = [NoSnap EXCEPT !.listingId = l,
                                                        !.subdomain = subdomain]]
           existingRental == {r \in RentalIds :
                                 /\ rentals[r].listingId = l
                                 /\ rentals[r].subdomain = subdomain
                                 /\ rentals[r].status = "ACTIVE"}
           status ==
                IF ~listings[l].exists THEN 404
                ELSE IF listings[l].status # "ACTIVE" THEN 400
                ELSE IF existingRental # {} THEN 409
                ELSE IF ActiveCount(l) >= listings[l].maxSubdomainsAllowed THEN 400
                ELSE 200
       IN
       /\ sessions' =
            IF status # 200 THEN sessions
            ELSE Append(sessions,
                    [listingId |-> l,
                     subdomain |-> subdomain,
                     fullDomain |-> FullDomainOf(subdomain, listings[l].domainName),
                     dnsRecordType |-> dnsRecordType,
                     dnsRecordValue |-> dnsRecordValue,
                     subscription |-> Len(sessions) + 1])
       /\ Charge(status # 200)
       /\ Finish(proc, status)
    /\ UNCHANGED <<listings, rentals, transactions, zone, inflight>>

\* ------------------------------- webhook: checkout.session.completed
\* Checkout handlers that have passed the checks and not yet inserted.
PendingCreates ==
    BagCardinality([q \in {x \in BagToSet(inflight) : x.pc = "ck_rental"} |-> inflight[q]])

\* The re-checks before any DNS mutation: the listing exists, is verified and
\* allows the requested record type.
CkAccepts_SkipVerified(listing, meta) ==
    /\ listing.exists
    /\ meta.dnsRecordType \in listing.allowedRecordTypes

CkAccepts_SkipKind(listing, meta) ==
    /\ listing.exists
    /\ listing.isVerified

CkAccepts(listing, meta) ==
    /\ listing.exists
    /\ listing.isVerified
    /\ meta.dnsRecordType \in listing.allowedRecordTypes

CkAfterDns_Rethrow(proc, outcome) ==
    IF outcome = "throw"
    THEN [proc EXCEPT !.pc = "done", !.resp = 500, !.dns = outcome]
    ELSE [proc EXCEPT !.pc = "ck_rental",
                      !.dns = outcome,
                      !.calls = Append(@, "createRecord")]

CkAfterDns_Silent(proc, outcome) ==
    [proc EXCEPT !.pc = "ck_rental", !.dns = outcome]

\* The inner try/catch: whatever the outcome of the DNS step, the handler
\* goes on to create the rental.
CkAfterDns(proc, outcome) ==
    [proc EXCEPT !.pc = "ck_rental",
                 !.dns = outcome,
                 !.calls = IF outcome = "throw" THEN @
                           ELSE Append(@, "createRecord")]

\* The event carries the session (its metadata and, possibly, a payment
\* intent: hasPI).  stripe.subscriptions.retrieve may throw (retrieveOk); the
\* listing is read and re-checked; then createDNSProvider + createRecord:
\*   "throw"  createDNSProvider threw, no request was sent
\*   "fail"   createRecord answered {success: false}
\*   "ok"     the registrar created the record
\* The listing read and the registrar call are one step: no other handler
\* writes what the one reads between them.
CkStart(s, hasPI, retrieveOk, outcome) ==
    /\ CanStart
    /\ s \in SessionIds
    /\ Len(rentals) + PendingCreates < MaxRentals
    /\ Charge(~retrieveOk \/ ~CkAccepts(listings[sessions[s].listingId], sessions[s]))
    /\ LET meta == sessions[s]
           listing == listings[meta.listingId]
           proc == [Idle EXCEPT !.op = "checkout", !.arg = s,
                        !.pi = IF hasPI THEN s ELSE NoId,
                        !.snap = [NoSnap EXCEPT
                                    !.listingId = meta.listingId,
                                    !.subdomain = meta.subdomain,
                                    !.fullDomain = meta.fullDomain,
                                    !.dnsRecordType = meta.dnsRecordType,
                                    !.dnsRecordValue = meta.dnsRecordValue,
                                    !.isVerified = listing.exists /\ listing.isVerified]]
           rec == [name |-> meta.fullDomain,
                   type |-> meta.dnsRecordType,
                   content |-> meta.dnsRecordValue]
       IN
       IF ~retrieveOk THEN
            /\ Start([proc EXCEPT !.pc = "done", !.resp = 500])
            /\ UNCHANGED zone
       ELSE IF ~CkAccepts(listing, meta) THEN
            /\ Start([proc EXCEPT !.pc = "done", !.resp = 200])
            /\ UNCHANGED zone
       ELSE
            /\ zone' = IF outcome = "ok"
                       THEN [zone EXCEPT ![meta.listingId] = @ \cup {rec}]
                       ELSE zone
            /\ Start(CkAfterDns(proc, outcome))
    /\ UNCHANGED <<listings, rentals, transactions, sessions>>

\* prisma.subdomainRental.create, then prisma.transaction.create if the
\* session has a payment intent.  The two creates are one step: between them
\* only the payment_intent handlers could tell the difference, and one that
\* does not find the transaction row yet returns without writing, exactly as
\* it does before the rental is created.
CkRental ==
    \E proc \in BagToSet(inflight) :
        LET s == proc.arg
            newId == Len(rentals) + 1
        IN
        /\ proc.pc = "ck_rental"
        /\ listings[proc.snap.listingId].exists
        /\ rentals' = Append(rentals,
                [listingId |-> proc.snap.listingId,
                 subdomain |-> proc.snap.subdomain,
                 fullDomain |-> proc.snap.fullDomain,
                 dnsRecordType |-> proc.snap.dnsRecordType,
                 dnsRecordValue |-> proc.snap.dnsRecordValue,
                 status |-> "ACTIVE",
                 stripeSubscriptionId |-> sessions[s].subscription,
                 session |-> s])
        /\ IF proc.pi # NoId
           THEN /\ transactions' = Append(transactions,
                        [rentalId |-> newId,
                         stripePaymentIntentId |-> proc.pi,
                         status |-> "COMPLETED"])
                /\ Goto(proc, [proc EXCEPT !.pc = "done", !.resp = 200, !.rid = newId,
                                           !.tid = Len(transactions) + 1])
           ELSE /\ UNCHANGED transactions
                /\ Goto(proc, [proc EXCEPT !.pc = "done", !.resp = 200, !.rid = newId])
        /\ UNCHANGED <<listings, sessions, zone, runs>>

\* The listing row was removed after the handler read it: the rental's
\* reference to it is refused, create throws and POST answers 500.
CkRentalRefused ==
    \E proc \in BagToSet(inflight) :
        /\ proc.pc = "ck_rental"
        /\ ~listings[proc.snap.listingId].exists
        /\ Goto(proc, [proc EXCEPT !.pc = "done", !.resp = 500])
        /\ UNCHANGED <<listings, rentals, transactions, sessions, zone, runs>>

\* ------------------------------ webhook: customer.subscription.deleted
\* webhooks/stripe/route.ts:281  the record the rental is matched with
MatchesRental(record, snap) ==
    \/ record.name = snap.fullDomain
    \/ StartsWith(record.name, snap.subdomain)

SdAfterList_Rethrow(proc, outcome) ==
    IF outcome = "ok"
    THEN [proc EXCEPT !.pc = "sd_update", !.dns = outcome,
                      !.calls = Append(@, "listRecords")]
    ELSE [proc EXCEPT !.pc = "done", !.resp = 500, !.dns = outcome]

\* A failed or thrown lookup, or no matching record: on to the status update.
SdAfterList(proc, outcome) ==
    [proc EXCEPT !.pc = "sd_update",
                 !.dns = outcome,
                 !.calls = IF outcome = "throw" THEN @
                           ELSE Append(@, "listRecords")]

\* findFirst by stripeSubscriptionId with the listing joined: no orderBy is
\* given, so any matching row can be the one returned.  No row: the handler
\* returns.  Listing not verified: straight to the status update.
SdStart(sub) ==
    /\ CanStart
    /\ sub \in SessionIds
    /\ LET matching == {r \in RentalIds : rentals[r].stripeSubscriptionId = sub}
           proc == [Idle EXCEPT !.op = "subdeleted", !.arg = sub]
       IN
       /\ Charge(matching = {})
       /\ \/ /\ matching = {}
             /\ Start([proc EXCEPT !.pc = "done", !.resp = 200])
          \/ \E r \in matching :
                LET rental == rentals[r]
                    found == [proc EXCEPT
                                !.rid = r,
                                !.snap = [listingId |-> rental.listingId,
                                          subdomain |-> rental.subdomain,
                                          fullDomain |-> rental.fullDomain,
                                          dnsRecordType |-> rental.dnsRecordType,
                                          dnsRecordValue |-> rental.dnsRecordValue,
                                          isVerified |-> listings[rental.listingId].isVerified,
                                          status |-> rental.status]]
                IN
                IF found.snap.isVerified
                THEN Start([found EXCEPT !.pc = "sd_list"])
                ELSE Start([found EXCEPT !.pc = "sd_update"])
    /\ UNCHANGED <<listings, rentals, transactions, sessions, zone>>

SdListed_Unfiltered(records, type) == records

\* listRecords(type): the registrar's records of that type.
SdListed(records, type) == {rec \in records : rec.type = type}

\* createDNSProvider + listRecords(rental.dnsRecordType) + find:
\*   "throw"  createDNSProvider threw, no request was sent
\*   "fail"   listRecords answered {success: false}
\*   "ok"     the registrar returned the zone's records of that type, in an
\*            order of its own: find() returns any of the matching ones
SdList(outcome) ==
    \E proc \in BagToSet(inflight) :
        LET records == SdListed(zone[proc.snap.listingId], proc.snap.dnsRecordType)
            matches == {rec \in records : MatchesRental(rec, proc.snap)}
            called == SdAfterList(proc, outcome)
        IN
        /\ proc.pc = "sd_list"
        /\ IF outcome = "ok" /\ matches # {} /\ called.pc # "done"
           THEN \E rec \in matches :
                    Goto(proc, [called EXCEPT !.pc = "sd_delete", !.target = rec])
           ELSE Goto(proc, called)
        /\ UNCHANGED <<listings, rentals, transactions, sessions, zone, runs>>

SdAfterDelete_Rethrow(proc, ok) ==
    IF ok
    THEN [proc EXCEPT !.pc = "sd_update", !.dns = "deleted",
                      !.calls = Append(@, "deleteRecord")]
    ELSE [proc EXCEPT !.pc = "done", !.resp = 500, !.dns = "deletefail",
                      !.calls = Append(@, "deleteRecord")]

\* The delete result is only logged.
SdAfterDelete(proc, ok) ==
    [proc EXCEPT !.pc = "sd_update",
                 !.dns = IF ok THEN "deleted" ELSE "deletefail",
                 !.calls = Append(@, "deleteRecord")]

\* deleteRecord(recordId): the registrar deletes the record or answers
\* {success: false}; either way the handler goes on.
SdDelete(ok) ==
    \E proc \in BagToSet(inflight) :
        /\ proc.pc = "sd_delete"
        /\ zone' = IF ok
                   THEN [zone EXCEPT ![proc.snap.listingId] = @ \ {proc.target}]
                   ELSE zone
        /\ Goto(proc, SdAfterDelete(proc, ok))
        /\ UNCHANGED <<listings, rentals, transactions, sessions, runs>>

\* prisma.subdomainRental.update({ status: 'CANCELLED' })
SdUpdate ==
    \E proc \in BagToSet(inflight) :
        /\ proc.pc = "sd_update"
        /\ rentals' = [rentals EXCEPT ![proc.rid].status = "CANCELLED"]
        /\ Goto(proc, [proc EXCEPT !.pc = "done", !.resp = 200])
        /\ UNCHANGED <<listings, transactions, sessions, zone, runs>>

\* ----------------------------- webhook: payment_intent.payment_failed
\* findFirst by stripePaymentIntentId, then the transaction is set FAILED
\* (one step: the row found is never deleted or re-pointed).
PfStart(pi) ==
    /\ CanStart
    /\ pi \in SessionIds
    /\ Charge(\A t \in TransactionIds : transactions[t].stripePaymentIntentId # pi)
    /\ LET matching == {t \in TransactionIds : transactions[t].stripePaymentIntentId = pi}
           proc == [Idle EXCEPT !.op = "payfailed", !.arg = pi]
       IN
       IF matching = {} THEN
            /\ Start([proc EXCEPT !.pc = "done", !.resp = 200])
            /\ UNCHANGED transactions
       ELSE \E t \in matching :
            /\ transactions' = [transactions EXCEPT ![t].status = "FAILED"]
            /\ Start([proc EXCEPT !.pc = "pf_rental", !.tid = t,
                             !.rid = transactions[t].rentalId,
                             !.snap = [NoSnap EXCEPT
                                !.status = rentals[transactions[t].rentalId].status]])
    /\ UNCHANGED <<listings, rentals, sessions, zone>>

PfCancel_All(rs, rid) == [r \in DOMAIN rs |-> [rs[r] EXCEPT !.status = "CANCELLED"]]

\* update where { id: transaction.rentalId }: that row's status alone.
PfCancel(rs, rid) == [rs EXCEPT ![rid].status = "CANCELLED"]

\* "Also mark the rental as cancelled"
PfRental ==
    \E proc \in BagToSet(inflight) :
        /\ proc.pc = "pf_rental"
        /\ rentals' = PfCancel(rentals, proc.rid)
        /\ Goto(proc, [proc EXCEPT !.pc = "done", !.resp = 200])
        /\ UNCHANGED <<listings, transactions, sessions, zone, runs>>

\* --------------------------------- webhook: payment_intent.succeeded
PsTxnUpdate_Reactivate(rs, txs, t) ==
    <<[rs EXCEPT ![txs[t].rentalId].status = "ACTIVE"],
      [txs EXCEPT ![t].status = "COMPLETED"]>>

PsTxnUpdate_CancelRental(rs, txs, t) ==
    <<[rs EXCEPT ![txs[t].rentalId].status = "CANCELLED"],
      [txs EXCEPT ![t].status = "COMPLETED"]>>

\* Only the transaction row is updated.
PsTxnUpdate(rs, txs, t) ==
    <<rs, [txs EXCEPT ![t].status = "COMPLETED"]>>

\* findFirst by stripePaymentIntentId, then the update of that row.
PaymentSucceeded(pi) ==
    /\ CanRun
    /\ pi \in SessionIds
    /\ Charge(\A t \in TransactionIds : transactions[t].stripePaymentIntentId # pi)
    /\ LET matching == {t \in TransactionIds : transactions[t].stripePaymentIntentId = pi}
           proc == [Idle EXCEPT !.op = "paysucceeded", !.arg = pi]
       IN
       IF matching = {} THEN
            /\ Finish(proc, 200)
            /\ UNCHANGED <<rentals, transactions>>
       ELSE \E t \in matching :
            /\ rentals' = PsTxnUpdate(rentals, transactions, t)[1]
            /\ transactions' = PsTxnUpdate(rentals, transactions, t)[2]
            /\ Finish([proc EXCEPT !.tid = t, !.rid = transactions[t].rentalId], 200)
    /\ UNCHANGED <<listings, sessions, zone, inflight>>

\* ------------------------------------------------- PUT /api/rentals/:id
\* Request bodies: a new record type, or a new record value.
PutBodies ==
    {[dnsRecordType |-> "cname", dnsRecordValue |-> "undefined"],
     [dnsRecordType |-> "undefined", dnsRecordValue |-> "v2"]}

\* findUnique, 404 when missing, 400 unless ACTIVE; then updateData is built.
PutStart(id, body) ==
    /\ CanStart
    /\ Charge(id \notin RentalIds \/ rentals[id].status # "ACTIVE")
    /\ LET proc == [Idle EXCEPT !.op = "put", !.arg = id]
       IN
       IF id \notin RentalIds THEN Start([proc EXCEPT !.pc = "done", !.resp = 404])
       ELSE IF rentals[id].status # "ACTIVE" THEN
            Start([proc EXCEPT !.pc = "done", !.resp = 400, !.rid = id,
                                 !.snap.status = rentals[id].status])
       ELSE Start([proc EXCEPT !.pc = "put_update", !.rid = id,
                    !.snap = [NoSnap EXCEPT
                        !.status = rentals[id].status,
                        !.dnsRecordType =
                            IF body.dnsRecordType = "undefined" THEN "undefined"
                            ELSE ToUpperCase(body.dnsRecordType),
                        !.dnsRecordValue = body.dnsRecordValue]])
    /\ UNCHANGED <<listings, rentals, transactions, sessions, zone>>

\* prisma.subdomainRental.update({ where: { id }, data: updateData })
PutUpdate ==
    \E proc \in BagToSet(inflight) :
        LET old == rentals[proc.rid]
        IN
        /\ proc.pc = "put_update"
        /\ rentals' = [rentals EXCEPT ![proc.rid] =
                [old EXCEPT
                    !.dnsRecordType = IF proc.snap.dnsRecordType = "undefined" THEN @
                                      ELSE proc.snap.dnsRecordType,
                    !.dnsRecordValue = IF proc.snap.dnsRecordValue = "undefined" THEN @
                                       ELSE proc.snap.dnsRecordValue]]
        /\ Goto(proc, [proc EXCEPT !.pc = "done", !.resp = 200])
        /\ UNCHANGED <<listings, transactions, sessions, zone, runs>>

\* ---------------------------------------------- DELETE /api/rentals/:id
\* findUnique, 404 when missing; stripe.subscriptions.cancel, whose failure
\* is caught (stripeOk); then the status update.  One step: the row read is
\* never deleted and nothing read here is used by the update.
CancelRental(id, stripeOk) ==
    /\ CanRun
    /\ Charge(id \notin RentalIds)
    /\ LET proc == [Idle EXCEPT !.op = "delete", !.arg = id]
       IN
       IF id \notin RentalIds THEN
            /\ Finish(proc, 404)
            /\ UNCHANGED rentals
       ELSE
            /\ rentals' = [rentals EXCEPT ![id].status = "CANCELLED"]
            /\ Finish([proc EXCEPT !.rid = id,
                                   !.snap.status = rentals[id].status],
                      200)
    /\ UNCHANGED <<listings, transactions, sessions, zone, inflight>>

\* ------------------------------------------- POST /api/webhooks/stripe
\* The stripe-signature header of a delivery: absent, not verifying under
\* the webhook secret (constructEvent throws), or verifying.
Signatures == {"missing", "invalid", "valid"}

SignatureRejected_Never(signature) == FALSE

\* webhooks/stripe/route.ts:18-35
SignatureRejected(signature) ==
    \/ signature = "missing"
    \/ signature = "invalid"

\* webhooks/stripe/route.ts:38-57  the switch on event.type: the first step
\* of the handler of the event
Dispatch ==
    \/ \E s \in 1..MaxSessions, hasPI \in BOOLEAN, ok \in BOOLEAN,
          o \in {"ok", "fail", "throw"} : CkStart(s, hasPI, ok, o)
    \/ \E s \in 1..MaxSessions : SdStart(s)
    \/ \E s \in 1..MaxSessions : PfStart(s)
    \/ \E s \in 1..MaxSessions : PaymentSucceeded(s)

\* A delivery: answered 400 before the event is even parsed when its
\* signature is rejected, dispatched to the handler of its type otherwise.
WebhookPost(signature) ==
    IF SignatureRejected(signature)
    THEN /\ CanRun
         /\ Finish([Idle EXCEPT !.op = "webhook"], 400)
         /\ UNCHANGED <<listings, rentals, transactions, sessions, zone, inflight, runs>>
    ELSE Dispatch

\* ------------------------------------------------------------ behaviours
Next ==
    \/ \E l \in Listings, o \in {"ok", "fail", "throw"} : VerifyListing(l, o)
    \/ \E l \in Listings, sd \in Subdomains, t \in RecordTypes, v \in RecordValues :
          InitiateRental(l, sd, t, v)
    \/ \E s \in 1..MaxSessions, hasPI \in BOOLEAN, ok \in BOOLEAN,
          o \in {"ok", "fail", "throw"} : CkStart(s, hasPI, ok, o)
    \/ CkRental
    \/ \E s \in 1..MaxSessions : SdStart(s)
    \/ \E o \in {"ok", "fail", "throw"} : SdList(o)
    \/ \E ok \in BOOLEAN : SdDelete(ok)
    \/ SdUpdate
    \/ \E s \in 1..MaxSessions : PfStart(s)
    \/ PfRental
    \/ \E s \in 1..MaxSessions : PaymentSucceeded(s)
    \/ \E id \in 1..MaxRentals, body \in PutBodies : PutStart(id, body)
    \/ PutUpdate
    \/ \E id \in 1..MaxRentals, ok \in BOOLEAN : CancelRental(id, ok)

Spec == Init /\ [][Next]_vars

\* The rental lifecycle together with the owner's listing updates.
NextWithUpdates ==
    \/ Next
    \/ \E l \in Listings, body \in ListingPutBodies : UpdateListing(l, body)

SpecWithUpdates == Init /\ [][NextWithUpdates]_vars

\* The billing provider's deliveries, with and without a good signature,
\* after verification and rental initiation.
NextWebhook ==
    \/ \E l \in Listings, o \in {"ok", "fail", "throw"} : VerifyListing(l, o)
    \/ \E l \in Listings, sd \in Subdomains, t \in RecordTypes, v \in RecordValues :
          InitiateRental(l, sd, t, v)
    \/ \E signature \in Signatures : WebhookPost(signature)
    \/ CkRental
    \/ \E o \in {"ok", "fail", "throw"} : SdList(o)
    \/ \E ok \in BOOLEAN : SdDelete(ok)
    \/ SdUpdate
    \/ PfRental

SpecWebhook == Init /\ [][NextWebhook]_vars

\* The listing lifecycle: verification, update and removal by the owner,
\* rental initiation and checkout completion by renters.
NextListing ==
    \/ \E l \in Listings, o \in {"ok", "fail", "throw"} : VerifyListing(l, o)
    \/ \E l \in Listings, body \in ListingPutBodies : UpdateListing(l, body)
    \/ \E l \in Listings : DlStart(l)
    \/ DlDelete
    \/ \E l \in Listings, sd \in Subdomains, t \in RecordTypes, v \in RecordValues :
          InitiateRental(l, sd, t, v)
    \/ \E s \in 1..MaxSessions, hasPI \in BOOLEAN, ok \in BOOLEAN,
          o \in {"ok", "fail", "throw"} : CkStart(s, hasPI, ok, o)
    \/ CkRental
    \/ CkRentalRefused

SpecListing == Init /\ [][NextListing]_vars

\* ------------------------------------------ POST /api/check-availability
UpperCaseLetters ==
    <<"A", "B", "C", "D", "E", "F", "G", "H", "I", "J", "K", "L", "M",
      "N", "O", "P", "Q", "R", "S", "T", "U", "V", "W", "X", "Y", "Z">>

LowerCaseLetters ==
    <<"a", "b", "c", "d", "e", "f", "g", "h", "i", "j", "k", "l", "m",
      "n", "o", "p", "q", "r", "s", "t", "u", "v", "w", "x", "y", "z">>

DecimalDigits == <<"0", "1", "2", "3", "4", "5", "6", "7", "8", "9">>

Range(seq) == {seq[i] : i \in DOMAIN seq}

\* The regex's i flag: a character is compared in lower case.
ToLowerCase(c) ==
    IF c \in Range(UpperCaseLetters)
    THEN LowerCaseLetters[CHOOSE i \in DOMAIN UpperCaseLetters : UpperCaseLetters[i] = c]
    ELSE c

\* The class [a-z0-9] under the i flag, and the class [a-z0-9-].
RegexAlnum(c) == ToLowerCase(c) \in Range(LowerCaseLetters) \cup Range(DecimalDigits)

RegexAlnumHyphen(c) == RegexAlnum(c) \/ c = "-"

SubdomainRegexTest_AnyEnd(subdomain) ==
    /\ Len(subdomain) >= 1
    /\ RegexAlnum(subdomain[1])
    /\ \A i \in 2..Len(subdomain) : RegexAlnumHyphen(subdomain[i])

\* check-availability/route.ts:19  /^[a-z0-9]([a-z0-9-]*[a-z0-9])?$/i.test
\* One alphanumeric character, then optionally any run of alphanumerics and
\* hyphens closed by an alphanumeric, up to the end of the string.
SubdomainRegexTest(subdomain) ==
    /\ Len(subdomain) >= 1
    /\ RegexAlnum(subdomain[1])
    /\ \/ Len(subdomain) = 1
       \/ /\ \A i \in 2..(Len(subdomain) - 1) : RegexAlnumHyphen(subdomain[i])
          /\ RegexAlnum(subdomain[Len(subdomain)])

AvMaxReached_Above(count, maxSubdomainsAllowed) == count > maxSubdomainsAllowed

\* check-availability/route.ts:64
AvMaxReached(count, maxSubdomainsAllowed) == count >= maxSubdomainsAllowed

ConflictsWith_ExactOnly(record, subdomain, domainName) ==
    record.name = FullDomainOf(subdomain, domainName)

\* check-availability/route.ts:108-116  the record that conflicts with the label
ConflictsWith(record, subdomain, domainName) ==
    \/ record.name = FullDomainOf(subdomain, domainName)
    \/ record.name = FullDomainOf(subdomain, domainName) \o <<".">>
    \/ StartsWith(record.name, subdomain \o <<".">>)

AvInvalidFormat == "Invalid subdomain format. Use only alphanumeric characters and hyphens."
AvNotActive == "This domain listing is not currently active."
AvMaximumReached == "Maximum subdomains reached for this domain."
AvTaken == "This subdomain is already taken."
AvDnsConflict == "A DNS record already exists for this subdomain. Please choose a different name."

\* The answer of one availability check: the request, the response status,
\* the body's `available` and `reason` (or `error`), and the registrar calls;
\* `dns` and `records` are the outcome of the lookup and the records it
\* returned, the other fields those of the available: true body.
AvResponse(l, subdomain, status, available, reason, calls) ==
    [op |-> "availability", pc |-> "done", arg |-> l, subdomain |-> subdomain,
     resp |-> status, available |-> available, reason |-> reason, calls |-> calls,
     dns |-> "none", records |-> <<>>,
     fullDomain |-> <<>>, price |-> 0, pricingPeriod |-> "undefined"]

\* check-availability/route.ts:136-142  the subdomain is available
AvAvailable(l, subdomain, listing, calls) ==
    [AvResponse(l, subdomain, 200, TRUE, "none", calls) EXCEPT
        !.fullDomain = FullDomainOf(subdomain, listing.domainName),
        !.price = listing.pricePerSubdomain,
        !.pricingPeriod = listing.pricingPeriod]

\* records.find(...): the records are tested in the order returned.  A
\* record with neither `name` nor `Name` makes recordName.startsWith throw a
\* TypeError, which leaves the find and the try block.
RECURSIVE AvFind(_, _, _)
AvFind(records, subdomain, domainName) ==
    IF records = <<>> THEN "none"
    ELSE IF Head(records).name = <<>> THEN "TypeError"
    ELSE IF ConflictsWith(Head(records), subdomain, domainName) THEN "found"
    ELSE AvFind(Tail(records), subdomain, domainName)

AvBlocked_OnError(dns) == dns \in {"found", "TypeError", "fail", "throw"}

\* Only a conflicting record found ends the check with available: false;
\* the catch block logs and goes on.
AvBlocked(dns) == dns = "found"

\* The orders in which a registrar can return a set of records.
Orderings(records) ==
    {seq \in [1..Cardinality(records) -> records] : Range(seq) = records}

\* The handler reads and answers; it writes nothing.  `outcome` is the
\* registrar's part in the DNS check of a verified listing:
\*   "throw"  createDNSProvider threw, no request was sent
\*   "fail"   listRecords answered {success: false}
\*   "ok"     listRecords returned `records`, the zone's records in some order
CheckAvailability(l, subdomain, outcome, records) ==
    /\ ~Observing
    /\ records \in (IF outcome = "ok" THEN Orderings(zone[l]) ELSE {<<>>})
    /\ LET listing == listings[l]
           existingRental == {r \in RentalIds :
                                 /\ rentals[r].listingId = l
                                 /\ rentals[r].subdomain = subdomain
                                 /\ rentals[r].status = "ACTIVE"}
           calls == IF outcome = "throw" THEN <<>> ELSE <<"listRecords">>
           dns == IF outcome = "ok"
                  THEN AvFind(records, subdomain, listing.domainName)
                  ELSE outcome
           returned == IF outcome = "ok" THEN records ELSE <<>>
       IN
       last' =
         IF subdomain = <<>> THEN
            AvResponse(l, subdomain, 400, FALSE, "Missing required fields: listingId and subdomain", <<>>)
         ELSE IF ~SubdomainRegexTest(subdomain) THEN
            AvResponse(l, subdomain, 200, FALSE, AvInvalidFormat, <<>>)
         ELSE IF ~listing.exists THEN
            AvResponse(l, subdomain, 404, FALSE, "Listing not found", <<>>)
         ELSE IF listing.status # "ACTIVE" THEN
            AvResponse(l, subdomain, 200, FALSE, AvNotActive, <<>>)
         ELSE IF AvMaxReached(ActiveCount(l), listing.maxSubdomainsAllowed) THEN
            AvResponse(l, subdomain, 200, FALSE, AvMaximumReached, <<>>)
         ELSE IF existingRental # {} THEN
            AvResponse(l, subdomain, 200, FALSE, AvTaken, <<>>)
         ELSE IF ~listing.isVerified THEN
            AvAvailable(l, subdomain, listing, <<>>)
         ELSE IF AvBlocked(dns) THEN
            [AvResponse(l, subdomain, 200, FALSE, AvDnsConflict, calls) EXCEPT
                !.dns = dns, !.records = returned]
         ELSE
            [AvAvailable(l, subdomain, listing, calls) EXCEPT
                !.dns = dns, !.records = returned]
    /\ UNCHANGED <<listings, rentals, transactions, sessions, zone, inflight, runs>>

\* Labels a client may send: empty, well-formed (lower and upper case, an
\* inner hyphen) and malformed (leading or trailing hyphen, underscore).
AvailabilityLabels ==
    {<<>>, <<"b">>, <<"b", "2">>, <<"B">>, <<"b", "-", "2">>,
     <<"-", "b">>, <<"b", "-">>, <<"b", "_">>, <<"_">>, <<"-">>}

\* The records the zone of the listing asked about may hold: the full name
\* of one label, that of another with a trailing dot, a name under a third
\* label, and a record that has no name.
AvailabilityRecords ==
    {[name |-> FullDomainOf(<<"b">>, DomainName), type |-> "A", content |-> "v1"],
     [name |-> FullDomainOf(<<"b", "2">>, DomainName) \o <<".">>, type |-> "A",
      content |-> "v1"],
     [name |-> <<"B", ".", "w", ".">> \o DomainName, type |-> "CNAME", content |-> "v2"],
     [name |-> <<>>, type |-> "A", content |-> "v1"]}

MaxZoneRecords == 2   \* records in the zone of the listing asked about

\* A database the handlers above can leave behind, for the check to read.
\* Listing 1 is in any state its owner can put it in (verified or not,
\* paused, removed, any maximum); a verified listing has rentals, ACTIVE or
\* CANCELLED, and records in its zone.  The other listings are as created.
InitAvailability ==
    /\ \E exists \in BOOLEAN, isVerified \in BOOLEAN,
          status \in {"ACTIVE", "PAUSED"}, maxSubdomainsAllowed \in 1..MaxRentals :
        listings = [l \in Listings |->
            [exists |-> l # 1 \/ exists,
             pricePerSubdomain |-> IF l = 1 THEN 9 ELSE 5,
             pricingPeriod |-> "MONTHLY",
             domainName |-> DomainName,
             status |-> IF l = 1 THEN status ELSE "ACTIVE",
             allowedRecordTypes |-> {"A"},
             maxSubdomainsAllowed |-> IF l = 1 THEN maxSubdomainsAllowed ELSE MaxRentals,
             isVerified |-> l = 1 /\ isVerified,
             verificationToken |-> IF l = 1 /\ isVerified THEN "null" ELSE "token",
             apiCredentialsEncrypted |-> Encrypt("k1")]]
    /\ \E n \in 0..MaxRentals :
        \E row \in [1..n -> Subdomains \X {"ACTIVE", "CANCELLED"}] :
            rentals = [r \in 1..n |->
                [listingId |-> 1,
                 subdomain |-> row[r][1],
                 fullDomain |-> FullDomainOf(row[r][1], DomainName),
                 dnsRecordType |-> "A",
                 dnsRecordValue |-> "v1",
                 status |-> row[r][2],
                 stripeSubscriptionId |-> r,
                 session |-> r]]
    /\ (rentals # <<>>) => listings[1].isVerified
    /\ \E records \in SUBSET AvailabilityRecords :
        /\ Cardinality(records) <= MaxZoneRecords
        /\ zone = [l \in Listings |-> IF l = 1 THEN records ELSE {}]
    /\ (zone[1] # {}) => listings[1].isVerified
    /\ transactions = <<>>
    /\ sessions = <<>>
    /\ inflight = EmptyBag
    /\ last = Idle
    /\ runs = 0

NextAvailability ==
    \E l \in Listings, subdomain \in AvailabilityLabels, o \in {"ok", "fail", "throw"} :
        \E records \in Orderings(zone[l]) \cup {<<>>} :
            CheckAvailability(l, subdomain, o, records)

SpecAvailability == InitAvailability /\ [][NextAvailability]_vars

\* ------------------------------------------- DNSProvider.verifyOwnership
\* String.prototype.includes
Includes(s, sub) ==
    \E i \in 0..(Len(s) - Len(sub)) : SubSeq(s, i + 1, i + Len(sub)) = sub

\* Cloudflare: the zone's TXT records are requested (?type=TXT) and searched
\* for one of type TXT whose content is the token and whose name is, or
\* includes, the verification name.
CloudflareVerifyOwnership(records, token) ==
    \E record \in {rec \in records : rec.type = "TXT"} :
        /\ record.type = "TXT"
        /\ record.content = token
        /\ (record.name = VerificationName \/ Includes(record.name, VerificationName))

\* Route53: listRecords('TXT') keeps the record sets of type TXT; one is
\* looked for whose Name includes the verification name and one of whose
\* values includes the token.
Route53VerifyOwnership(records, token) ==
    \E record \in {rec \in records : rec.type = "TXT"} :
        /\ Includes(record.name, VerificationName)
        /\ Includes(record.content, token)

\* Namecheap: not implemented, the answer is always {success: false}.
NamecheapVerifyOwnership(records, token) == FALSE

Route53MakeRequest_Sent(requestOk) == requestOk

\* Route53's makeRequest throws before it sends anything: no request of this
\* provider is ever answered.
Route53MakeRequest(requestOk) == FALSE

Registrars == {"CLOUDFLARE", "ROUTE53", "NAMECHEAP"}

\* createDNSProvider(registrar, credentials).verifyOwnership(token), when
\* the registrar answers the request with the zone's `records`
VerifyOwnership(registrar, records, token) ==
    CASE registrar = "CLOUDFLARE" -> CloudflareVerifyOwnership(records, token)
      [] registrar = "ROUTE53" -> Route53VerifyOwnership(records, token)
      [] registrar = "NAMECHEAP" -> NamecheapVerifyOwnership(records, token)

\* One call: the request to the registrar fails (every provider catches it
\* and answers {success: false}) or is answered with the zone's records.
VerifyOwnershipCall(l, requestOk) ==
    /\ ~Observing
    /\ listings[l].exists
    /\ ~listings[l].isVerified
    /\ LET listing == listings[l]
           \* Namecheap's verifyOwnership sends no request
           answered == CASE listing.registrar = "CLOUDFLARE" -> requestOk
                         [] listing.registrar = "ROUTE53" -> Route53MakeRequest(requestOk)
                         [] listing.registrar = "NAMECHEAP" -> TRUE
       IN
       last' = [op |-> "verifyOwnership", pc |-> "done", arg |-> l,
                registrar |-> listing.registrar,
                token |-> listing.verificationToken,
                dns |-> IF answered THEN "ok" ELSE "fail",
                success |-> /\ answered
                            /\ VerifyOwnership(listing.registrar, zone[l],
                                               listing.verificationToken)]
    /\ UNCHANGED <<listings, rentals, transactions, sessions, zone, inflight, runs>>

MaxTxtRecords == 1    \* records in the zone of the listing being verified

\* Tokens and published values: two that differ in one character, a strict
\* substring and a strict superstring of the first.
VerificationTokens == {<<"t", "1">>, <<"t", "2">>, <<"t">>, <<"t", "1", "x">>}

VerificationRecords ==
    [type : {"TXT", "A"},
     name : {VerificationName, VerificationName \o <<".">> \o DomainName, <<"w">>},
     content : VerificationTokens]

\* Listing 1 as created, with any registrar and token, the owner having
\* published up to MaxTxtRecords records; the other listings have none.
InitOwnership ==
    /\ \E registrar \in Registrars, token \in VerificationTokens :
        listings = [l \in Listings |->
            [exists |-> TRUE,
             domainName |-> DomainName,
             status |-> "ACTIVE",
             allowedRecordTypes |-> {"A"},
             maxSubdomainsAllowed |-> MaxRentals,
             isVerified |-> FALSE,
             verificationToken |-> token,
             apiCredentialsEncrypted |-> Encrypt("k1"),
             registrar |-> registrar]]
    /\ \E published \in [1..MaxTxtRecords -> VerificationRecords \cup {NoRecord}] :
        zone = [l \in Listings |->
                    IF l = 1 THEN Range(published) \ {NoRecord} ELSE {}]
    /\ rentals = <<>>
    /\ transactions = <<>>
    /\ sessions = <<>>
    /\ inflight = EmptyBag
    /\ last = Idle
    /\ runs = 0

NextOwnership ==
    \E l \in Listings, requestOk \in BOOLEAN : VerifyOwnershipCall(l, requestOk)

SpecOwnership == InitOwnership /\ [][NextOwnership]_vars

\* ------------------------------------------------------ encrypt / decrypt
\* The credential codec of lib/encryption, byte by byte.  `Encrypt` above is
\* the abstraction the listing rows use; `encrypt` and `decrypt` here are the
\* two functions themselves.  The AES-GCM primitives of node:crypto are
\* replaced by a stand-in stream cipher (a keystream derived from key and iv,
\* XORed on the bytes) and a stand-in authentication tag.  A thrown Error is
\* written as the pair <<"Error", message>>.

ALGORITHM == "aes-256-gcm"
IV_LENGTH == 16
SALT_LENGTH == 64
TAG_LENGTH == 16
KEY_LENGTH == 32

MaxTextLen == 2       \* characters in a text to encrypt
MaxSeals == 2         \* encrypt calls on the text

RECURSIVE Xor(_, _, _)
Xor(a, b, bits) ==
    IF bits = 0 THEN 0
    ELSE ((a + b) % 2) + 2 * Xor(a \div 2, b \div 2, bits - 1)

RECURSIVE Flatten(_)
Flatten(seqs) == IF seqs = <<>> THEN <<>> ELSE Head(seqs) \o Flatten(Tail(seqs))

RECURSIVE SumBytes(_)
SumBytes(bytes) == IF bytes = <<>> THEN 0 ELSE Head(bytes) + SumBytes(Tail(bytes))

\* The characters JSON.stringify can put in a text: one-byte characters (the
\* colon among them) and a two-byte one.
TextChars == {"a", ":", "e'"}

Utf8Bytes(char) ==
    CASE char = "a" -> <<97>>
      [] char = ":" -> <<58>>
      [] char = "e'" -> <<195, 169>>

Utf8Encode(text) == Flatten([i \in DOMAIN text |-> Utf8Bytes(text[i])])

RECURSIVE Utf8Decode(_)
Utf8Decode(bytes) ==
    IF bytes = <<>> THEN <<>>
    ELSE IF Head(bytes) < 128
         THEN <<IF Head(bytes) = 97 THEN "a"
                ELSE IF Head(bytes) = 58 THEN ":"
                ELSE "other">> \o Utf8Decode(Tail(bytes))
         ELSE IF Len(bytes) >= 2 /\ Head(bytes) = 195 /\ bytes[2] = 169
              THEN <<"e'">> \o Utf8Decode(Tail(Tail(bytes)))
              ELSE <<"\\uFFFD">> \o Utf8Decode(Tail(bytes))

HexDigits == <<"0", "1", "2", "3", "4", "5", "6", "7",
               "8", "9", "a", "b", "c", "d", "e", "f">>

HexValue(digit) == CHOOSE v \in 0..15 : HexDigits[v + 1] = digit

ToHex(bytes) ==
    Flatten([i \in DOMAIN bytes |->
                <<HexDigits[(bytes[i] \div 16) + 1], HexDigits[(bytes[i] % 16) + 1]>>])

FromHex(hex) ==
    [i \in 1..(Len(hex) \div 2) |->
        16 * HexValue(hex[2 * i - 1]) + HexValue(hex[2 * i])]

RECURSIVE Split(_, _)
Split(string, separator) ==
    IF \A i \in DOMAIN string : string[i] # separator
    THEN <<string>>
    ELSE LET at == CHOOSE i \in DOMAIN string :
                        /\ string[i] = separator
                        /\ \A j \in 1..(i - 1) : string[j] # separator
         IN  <<SubSeq(string, 1, at - 1)>>
                \o Split(SubSeq(string, at + 1, Len(string)), separator)

\* process.env.ENCRYPTION_KEY: unset, too short, or long enough.
EncryptionKeys ==
    {<<>>,
     [i \in 1..8 |-> 48 + i],
     [i \in 1..40 |-> 33 + ((i * 5) % 90)]}

KeyRejected(key) == key = <<>> \/ Len(key) < KEY_LENGTH

getKey(key) == SubSeq(key, 1, KEY_LENGTH)

\* The values randomBytes can hand out, two to an encrypt call.
Draws == 1..(2 * MaxSeals)

randomBytes_Fixed(length, draw) == [i \in 1..length |-> 0]

randomBytes(length, draw) == [i \in 1..length |-> (draw * 37 + i * 11) % 256]

Keystream(key, iv, i) ==
    (key[((i - 1) % KEY_LENGTH) + 1] * 3 + iv[((i - 1) % IV_LENGTH) + 1] + i) % 256

Cipher(key, iv, bytes) ==
    [i \in DOMAIN bytes |-> Xor(bytes[i], Keystream(key, iv, i), 8)]

AuthTag(key, iv, encrypted) ==
    [i \in 1..TAG_LENGTH |-> (SumBytes(encrypted) + key[i] + iv[i]) % 256]

encrypt(text, envKey, ivDrawn, saltDrawn) ==
    LET key == getKey(envKey)
        iv == ivDrawn
        salt == saltDrawn
        encrypted == Cipher(key, iv, Utf8Encode(text))
        tag == AuthTag(key, iv, encrypted)
    IN  ToHex(iv) \o <<":">> \o ToHex(salt) \o <<":">>
            \o ToHex(encrypted) \o <<":">> \o ToHex(tag)

DecEncrypted_Salt(parts) == parts[2]

DecEncrypted(parts) == parts[3]

decrypt(encryptedData, envKey) ==
    LET key == getKey(envKey)
        parts == Split(encryptedData, ":")
    IN  IF Len(parts) # 4
        THEN <<"Error", "Invalid encrypted data format">>
        ELSE LET iv == FromHex(parts[1])
                 encrypted == FromHex(DecEncrypted(parts))
                 tag == FromHex(parts[4])
             IN  IF tag # AuthTag(key, iv, encrypted)
                 THEN <<"Error", "Unsupported state or unable to authenticate data">>
                 ELSE Utf8Decode(Cipher(key, iv, encrypted))

Texts == UNION {[1..n -> TextChars] : n \in 0..MaxTextLen}

\* One text under one key: `outputs` are the results of the encrypt calls made
\* on it so far, `drawn` the values randomBytes has handed out, `decrypted`
\* the result of the last decrypt call and `of` the output it was given.
\* randomBytes does not repeat a value: a repeat of the 80 random bytes of one
\* call has probability 2^-640.
EncryptCall ==
    /\ last.op = "encryption"
    /\ last.pc = "ready"
    /\ Len(last.outputs) < MaxSeals
    /\ IF KeyRejected(last.key)
       THEN last' = [last EXCEPT !.pc = "threw"]
       ELSE \E ivDraw \in Draws \ last.drawn :
            \E saltDraw \in Draws \ (last.drawn \cup {ivDraw}) :
                last' = [last EXCEPT
                    !.outputs = Append(@, encrypt(last.text, last.key,
                                    randomBytes(IV_LENGTH, ivDraw),
                                    randomBytes(SALT_LENGTH, saltDraw))),
                    !.drawn = @ \cup {ivDraw, saltDraw}]
    /\ UNCHANGED <<listings, rentals, transactions, sessions, zone, inflight, runs>>

DecryptCall(i) ==
    /\ last.op = "encryption"
    /\ last.pc = "ready"
    /\ i \in DOMAIN last.outputs
    /\ last' = [last EXCEPT !.of = i,
                            !.decrypted = decrypt(last.outputs[i], last.key)]
    /\ UNCHANGED <<listings, rentals, transactions, sessions, zone, inflight, runs>>

InitEncryption ==
    /\ listings = [l \in Listings |->
            [exists |-> FALSE,
             domainName |-> DomainName,
             status |-> "ACTIVE",
             allowedRecordTypes |-> {"A"},
             maxSubdomainsAllowed |-> MaxRentals,
             isVerified |-> FALSE,
             verificationToken |-> "token",
             apiCredentialsEncrypted |-> Encrypt("k1")]]
    /\ zone = [l \in Listings |-> {}]
    /\ rentals = <<>>
    /\ transactions = <<>>
    /\ sessions = <<>>
    /\ inflight = EmptyBag
    /\ runs = 0
    /\ \E text \in Texts, key \in EncryptionKeys :
        last = [op |-> "encryption", pc |-> "ready", text |-> text, key |-> key,
                outputs |-> <<>>, drawn |-> {}, of |-> 0, decrypted |-> <<>>]

NextEncryption ==
    \/ EncryptCall
    \/ \E i \in 1..MaxSeals : DecryptCall(i)

SpecEncryption == InitEncryption /\ [][NextEncryption]_vars

\* ------------------------------------------------ a listing with rentals
\* The labels rented so far, in the order of their rentals.
RentedLabels ==
    {<<>>, << <<"b">> >>, << <<"b", "2">> >>, << <<"b">>, <<"b", "2">> >>}

\* Listing 1 some time into its life: verified, with the maximum its owner
\* gave it, and with the ACTIVE rentals of the labels rented so far, each
\* with its checkout session, its subscription and its record in the zone.
InitRented ==
    /\ \E max \in 1..MaxRentals, labels \in RentedLabels :
        /\ Len(labels) <= max
        /\ Len(labels) <= MaxSessions
        /\ listings = [l \in Listings |->
                [exists |-> TRUE,
                 domainName |-> DomainName,
                 status |-> "ACTIVE",
                 allowedRecordTypes |-> {"A"},
                 maxSubdomainsAllowed |-> IF l = 1 THEN max ELSE MaxRentals,
                 isVerified |-> l = 1,
                 verificationToken |-> IF l = 1 THEN "null" ELSE "token",
                 apiCredentialsEncrypted |-> Encrypt("k1")]]
        /\ sessions = [i \in 1..Len(labels) |->
                [listingId |-> 1,
                 subdomain |-> labels[i],
                 fullDomain |-> FullDomainOf(labels[i], DomainName),
                 dnsRecordType |-> "A",
                 dnsRecordValue |-> "v1",
                 subscription |-> i]]
        /\ rentals = [i \in 1..Len(labels) |->
                [listingId |-> 1,
                 subdomain |-> labels[i],
                 fullDomain |-> FullDomainOf(labels[i], DomainName),
                 dnsRecordType |-> "A",
                 dnsRecordValue |-> "v1",
                 status |-> "ACTIVE",
                 stripeSubscriptionId |-> i,
                 session |-> i]]
        /\ zone = [l \in Listings |->
                IF l # 1 THEN {}
                ELSE {[name |-> FullDomainOf(labels[i], DomainName),
                       type |-> "A",
                       content |-> "v1"] : i \in 1..Len(labels)}]
    /\ transactions = <<>>
    /\ inflight = EmptyBag
    /\ last = Idle
    /\ runs = 0

\* Rental initiation for listing 1, the checkout events of its sessions
\* (opened in subscription mode, they carry no payment intent), the
\* subscription events and the renter's cancellation.
NextRented ==
    \/ \E sd \in Subdomains, t \in RecordTypes, v \in RecordValues :
          InitiateRental(1, sd, t, v)
    \/ \E s \in 1..MaxSessions, ok \in BOOLEAN, o \in {"ok", "fail", "throw"} :
          CkStart(s, FALSE, ok, o)
    \/ CkRental
    \/ \E s \in 1..MaxSessions : SdStart(s)
    \/ \E o \in {"ok", "fail", "throw"} : SdList(o)
    \/ \E ok \in BOOLEAN : SdDelete(ok)
    \/ SdUpdate
    \/ \E id \in 1..MaxRentals, ok \in BOOLEAN : CancelRental(id, ok)

SpecRented == InitRented /\ [][NextRented]_vars

\* ------------------------------------------------ the DNSProvider clients
\* The five operations of the three clients.  A result is what the caller
\* gets: `threw` when the promise rejects, else the `success` of the returned
\* object; `requests` counts the HTTP requests sent.
Methods == {"createRecord", "deleteRecord", "updateRecord", "listRecords", "verifyOwnership"}

Caught_Rethrown(requests) == [threw |-> TRUE, success |-> FALSE, requests |-> requests]

\* catch (error) { return { success: false, error: ... } }
Caught(requests) == [threw |-> FALSE, success |-> FALSE, requests |-> requests]

Answer(success, requests) == [threw |-> FALSE, success |-> success, requests |-> requests]

\* Cloudflare: every operation is one request inside try/catch; makeRequest
\* throws when the response is not ok.
CloudflareCall(method, requestOk, records, token) ==
    IF ~requestOk THEN Caught(1)
    ELSE Answer(method = "verifyOwnership" => CloudflareVerifyOwnership(records, token), 1)

\* Route53: every operation goes through makeRequest inside try/catch;
\* updateRecord returns the result of its deleteRecord, verifyOwnership
\* answers failure when its listRecords did.
Route53Call(method, requestOk, records, token) ==
    LET direct == IF Route53MakeRequest(requestOk) THEN Answer(TRUE, 1) ELSE Caught(0)
    IN  CASE method \in {"createRecord", "deleteRecord", "listRecords"} -> direct
          [] method = "updateRecord" ->
                IF direct.threw \/ ~direct.success THEN direct
                ELSE Answer(TRUE, 2)
          [] method = "verifyOwnership" ->
                IF direct.threw THEN Caught(direct.requests)
                ELSE IF ~direct.success THEN Answer(FALSE, direct.requests)
                ELSE Answer(Route53VerifyOwnership(records, token), direct.requests)

\* Namecheap: createRecord sends getHosts and setHosts inside try/catch; the
\* other four return a failure object without sending anything.
NamecheapCall(method, requestOk, records, token) ==
    IF method = "createRecord"
    THEN IF requestOk THEN Answer(TRUE, 2) ELSE Caught(1)
    ELSE Answer(NamecheapVerifyOwnership(records, token), 0)

ProviderCall(registrar, method, requestOk, records, token) ==
    CASE registrar = "CLOUDFLARE" -> CloudflareCall(method, requestOk, records, token)
      [] registrar = "ROUTE53" -> Route53Call(method, requestOk, records, token)
      [] registrar = "NAMECHEAP" -> NamecheapCall(method, requestOk, records, token)

\* validateCredentials: createDNSProvider (throws for an unknown registrar)
\* and listRecords() inside try/catch.
validateCredentials(registrar, requestOk) ==
    IF registrar \notin Registrars
    THEN [threw |-> FALSE, valid |-> FALSE, calls |-> <<>>, listed |-> FALSE]
    ELSE LET result == ProviderCall(registrar, "listRecords", requestOk, {}, <<>>)
         IN  [threw |-> FALSE,
              valid |-> ~result.threw /\ result.success,
              calls |-> <<"listRecords">>,
              listed |-> ~result.threw /\ result.success]

\* ------------------------------------------------------ POST /api/listings
\* Request bodies: a registrar, in any case, and the allowed record types.
CreateBodies ==
    [registrar : {"cloudflare", "ROUTE53", "NAMECHEAP", "GODADDY"},
     allowedRecordTypes : {{}, {"A"}, {"CNAME"}, {"A", "SRV"}}]

ValidRecordTypes == {"A", "AAAA", "CNAME", "TXT", "MX", "NS"}

\* The token of a new listing, randomBytes(32) in hex.
NewToken == <<"t", "1">>

CrBlocked_Never(validation) == FALSE

\* if (!credentialsValid.valid): 400
CrBlocked(validation) == ~validation.valid

CrResponse(l, body, status, validation) ==
    [op |-> "create", pc |-> "done", arg |-> l,
     registrar |-> ToUpperCase(body.registrar), resp |-> status,
     threw |-> validation.threw, valid |-> validation.valid,
     listed |-> validation.listed, calls |-> validation.calls]

NotValidated == [threw |-> FALSE, valid |-> FALSE, calls |-> <<>>, listed |-> FALSE]

\* The record types are checked, the credentials probed, and the row is
\* created unverified with a new token; a domain name already listed is
\* refused by the unique index (P2002).
CreateListing(l, body, requestOk) ==
    /\ ~Observing
    /\ ~listings[l].exists
    /\ \A k \in Listings : k < l => listings[k].exists
    /\ LET validation == validateCredentials(ToUpperCase(body.registrar), requestOk)
           answer == IF body.allowedRecordTypes = {}
                        \/ body.allowedRecordTypes \ ValidRecordTypes # {}
                     THEN CrResponse(l, body, 400, NotValidated)
                     ELSE IF CrBlocked(validation)
                     THEN CrResponse(l, body, 400, validation)
                     ELSE IF \E k \in Listings : listings[k].exists
                                                /\ listings[k].domainName = DomainName
                     THEN CrResponse(l, body, 409, validation)
                     ELSE CrResponse(l, body, 201, validation)
       IN
       /\ listings' = IF answer.resp # 201 THEN listings
                      ELSE [listings EXCEPT ![l] =
                                [exists |-> TRUE,
                                 domainName |-> DomainName,
                                 status |-> "ACTIVE",
                                 allowedRecordTypes |-> body.allowedRecordTypes,
                                 maxSubdomainsAllowed |-> MaxRentals,
                                 isVerified |-> FALSE,
                                 verificationToken |-> NewToken,
                                 apiCredentialsEncrypted |-> Encrypt("k1"),
                                 registrar |-> ToUpperCase(body.registrar)]]
       /\ \E observed \in BOOLEAN : last' = IF observed THEN answer ELSE Idle
    /\ UNCHANGED <<rentals, transactions, sessions, zone, inflight, runs>>

\* POST /api/listings/:id/verify of a created listing, the ownership check
\* done by the listing's own client.
VerifyCreated(l, requestOk) ==
    /\ ~Observing
    /\ listings[l].exists
    /\ ~listings[l].isVerified
    /\ LET listing == listings[l]
           result == ProviderCall(listing.registrar, "verifyOwnership", requestOk,
                                  zone[l], listing.verificationToken)
       IN
       /\ listings' = IF result.success
                      THEN [listings EXCEPT ![l] = VfVerified(@)]
                      ELSE listings
       /\ \E observed \in BOOLEAN :
            last' = IF ~observed THEN Idle
                    ELSE [op |-> "verifyCreated", pc |-> "done", arg |-> l,
                          registrar |-> listing.registrar,
                          resp |-> IF result.success THEN 200 ELSE 400]
    /\ UNCHANGED <<rentals, transactions, sessions, zone, inflight, runs>>

\* One operation of one client, on the zone of listing 1.
ProviderOperation(registrar, method, requestOk) ==
    /\ ~Observing
    /\ LET result == ProviderCall(registrar, method, requestOk, zone[1], NewToken)
       IN  last' = [op |-> "provider", pc |-> "done", registrar |-> registrar,
                    method |-> method, requestOk |-> requestOk,
                    threw |-> result.threw, success |-> result.success,
                    requests |-> result.requests]
    /\ UNCHANGED <<listings, rentals, transactions, sessions, zone, inflight, runs>>

\* No listing yet; the zone of the domain to be listed holds up to
\* MaxTxtRecords records, among them perhaps the token record of the listing
\* to come.
InitCreation ==
    /\ listings = [l \in Listings |->
            [exists |-> FALSE,
             domainName |-> DomainName,
             status |-> "ACTIVE",
             allowedRecordTypes |-> {"A"},
             maxSubdomainsAllowed |-> MaxRentals,
             isVerified |-> FALSE,
             verificationToken |-> NewToken,
             apiCredentialsEncrypted |-> Encrypt("k1"),
             registrar |-> "CLOUDFLARE"]]
    /\ \E records \in SUBSET VerificationRecords :
        /\ Cardinality(records) <= MaxTxtRecords
        /\ zone = [l \in Listings |-> IF l = 1 THEN records ELSE {}]
    /\ rentals = <<>>
    /\ transactions = <<>>
    /\ sessions = <<>>
    /\ inflight = EmptyBag
    /\ last = Idle
    /\ runs = 0

NextCreation ==
    \/ \E l \in Listings, body \in CreateBodies, requestOk \in BOOLEAN :
            CreateListing(l, body, requestOk)
    \/ \E l \in Listings, requestOk \in BOOLEAN : VerifyCreated(l, requestOk)
    \/ \E registrar \in Registrars, method \in Methods, requestOk \in BOOLEAN :
            ProviderOperation(registrar, method, requestOk)

SpecCreation == InitCreation /\ [][NextCreation]_vars

\* ================================================================ claims
\* The handler runs in view: those still running and the returned one under
\* observation.
Runs == BagToSet(inflight) \cup {last}

SamePair(r1, r2) ==
    /\ rentals[r1].listingId = rentals[r2].listingId
    /\ rentals[r1].subdomain = rentals[r2].subdomain

BothActive(r1, r2) ==
    /\ rentals[r1].status = "ACTIVE"
    /\ rentals[r2].status = "ACTIVE"

\* C1: at every moment there is at most one ACTIVE rental for each
\* (listing, subdomain) pair.
C1_AtMostOneActivePerPair ==
    \A r1, r2 \in RentalIds :
        (r1 # r2 /\ SamePair(r1, r2)) => ~BothActive(r1, r2)

\* C2: of two rental initiations for the same (listing, subdomain) that both
\* obtained a checkout session, only one ends up with an ACTIVE rental; they
\* never both hold one.
C2_OneInitiationWins ==
    \A r1, r2 \in RentalIds :
        (/\ rentals[r1].session # rentals[r2].session
         /\ SamePair(r1, r2)) => ~BothActive(r1, r2)

\* C3: createRecord is only ever issued for a verified listing, and a
\* checkout_completed event that finds the listing unverified ends at once:
\* no rental, no transaction, no registrar call.
C3_UnverifiedNeverProvisioned ==
    /\ \A run \in BagToSet(inflight) :
            run.op = "checkout" => listings[run.snap.listingId].isVerified
    /\ \A l \in Listings : zone[l] # {} => listings[l].isVerified
    /\ \A r \in RentalIds : listings[rentals[r].listingId].isVerified
    /\ \A t \in TransactionIds :
            listings[rentals[transactions[t].rentalId].listingId].isVerified
    /\ \A run \in Runs :
            (run.op = "checkout" /\ ~run.snap.isVerified) =>
                /\ run.pc = "done"
                /\ run.rid = NoId
                /\ run.tid = NoId
                /\ run.dns = "none"
                /\ run.calls = <<>>

C3_Witness ==
    /\ last.op = "checkout"
    /\ last.resp = 200
    /\ ~last.snap.isVerified
    /\ last.calls = <<>>

\* A checkout handler that passed the re-checks, went through the DNS step
\* and has returned.
CkPastDns(run) ==
    /\ run.op = "checkout"
    /\ run.pc = "done"
    /\ run.dns \in {"ok", "fail", "throw"}

\* C4: a checkout_completed handler that passed the re-checks (verified
\* listing, allowed record kind) always inserts its rental, with status
\* ACTIVE, whether createRecord succeeded, reported failure or the provider
\* construction threw, and answers "received".
C4_RentalDespiteDnsOutcome ==
    /\ [](\A run \in Runs :
            CkPastDns(run) =>
                /\ run.rid \in RentalIds
                /\ rentals[run.rid].session = run.arg
                /\ run.resp = 200)
    /\ [][\A r \in 1..Len(rentals') :
            r \notin RentalIds => rentals'[r].status = "ACTIVE"]_vars

C4_Witness ==
    /\ CkPastDns(last)
    /\ last.dns = "throw"
    /\ last.rid \in RentalIds
    /\ \E r \in RentalIds : r # last.rid

\* C5: a subscription_deleted handler that found a rental always leaves it
\* CANCELLED, whatever listRecords and deleteRecord did.
C5_CancelledDespiteDnsOutcome ==
    (/\ last.op = "subdeleted"
     /\ last.rid # NoId) =>
        rentals[last.rid].status = "CANCELLED"

C5_Witness ==
    /\ last.op = "subdeleted"
    /\ last.snap.status = "ACTIVE"
    /\ last.dns = "deletefail"
    /\ rentals[last.rid].status = "CANCELLED"

\* C6: a subscription_deleted handler that found its rental already
\* CANCELLED issues no registrar call.
C6_ReapplyIsNoOp ==
    \A run \in Runs :
        (/\ run.op = "subdeleted"
         /\ run.snap.status = "CANCELLED") =>
            run.calls = <<>>

CancelledRentals == {r \in RentalIds : rentals[r].status = "CANCELLED"}

\* A subscription_deleted delivery whose rental had already been cancelled
\* when it was read.
SecondDelivery(run) ==
    /\ run.op = "subdeleted"
    /\ run.snap.status = "CANCELLED"

\* C7: a repeated subscription_deleted delivery cancels no further rental
\* (the rental it found stays the cancelled one) and answers "received",
\* also when its DNS lookup or deletion fails.
C7_SecondDeliveryHarmless ==
    /\ [](SecondDelivery(last) =>
                /\ last.resp = 200
                /\ last.rid \in CancelledRentals)
    /\ [][\A run \in BagToSet(inflight) :
            (SecondDelivery(run) /\ CopiesIn(run, inflight') < CopiesIn(run, inflight)) =>
                {r \in 1..Len(rentals') : rentals'[r].status = "CANCELLED"}
                    = CancelledRentals]_vars

C7_Witness ==
    /\ SecondDelivery(last)
    /\ last.dns \in {"fail", "throw", "deletefail"}
    /\ Cardinality(CancelledRentals) = 1

\* C8: however often a checkout_completed event is delivered, its session
\* has at most one rental and one transaction, and no handler run issues
\* createRecord for a session that already has its rental.
C8_CheckoutIdempotent ==
    \A s \in SessionIds :
        /\ Cardinality({r \in RentalIds : rentals[r].session = s}) <= 1
        /\ Cardinality({t \in TransactionIds :
                            transactions[t].stripePaymentIntentId = s}) <= 1
        /\ \A run \in BagToSet(inflight) :
                (run.op = "checkout" /\ run.arg = s
                    /\ run.pc = "ck_rental" /\ run.calls # <<>>) =>
                        {r \in RentalIds : rentals[r].session = s} = {}

\* C9: a rental is ACTIVE only from its creation on, and a CANCELLED rental
\* stays CANCELLED in every step.
C9_StatusMonotonic ==
    [][\A r \in 1..Len(rentals') :
        /\ (r \in RentalIds /\ rentals[r].status = "CANCELLED")
                => rentals'[r].status = "CANCELLED"
        /\ rentals'[r].status = "ACTIVE"
                => (r \notin RentalIds \/ rentals[r].status = "ACTIVE")]_vars

C9_Witness ==
    /\ last.op = "paysucceeded"
    /\ last.tid # NoId
    /\ rentals[last.rid].status = "CANCELLED"

\* C10: once a rental is CANCELLED its DNS record kind and value never
\* change.
C10_ImmutableOnceCancelled ==
    [][\A r \in RentalIds :
        rentals[r].status = "CANCELLED" =>
            /\ rentals'[r].dnsRecordType = rentals[r].dnsRecordType
            /\ rentals'[r].dnsRecordValue = rentals[r].dnsRecordValue]_vars

\* C11: a checkout_completed handler that persisted a rental has also created,
\* in the same run, a transaction of that rental with status COMPLETED.
C11_RentalHasTransaction ==
    \A run \in Runs :
        (run.op = "checkout" /\ run.rid # NoId) =>
            /\ run.tid \in TransactionIds
            /\ transactions[run.tid].rentalId = run.rid
            /\ transactions[run.tid].status = "COMPLETED"

\* The requested record kind of a checkout run's session is not one the
\* listing allows.
KindRefused(run) ==
    /\ run.op = "checkout"
    /\ run.arg \in SessionIds
    /\ sessions[run.arg].dnsRecordType
            \notin listings[sessions[run.arg].listingId].allowedRecordTypes

\* C12: a checkout_completed event whose requested record kind the listing
\* does not allow ends before the DNS step: the run issues no registrar call
\* and creates no rental and no transaction, so no rental is ever created
\* with a kind its listing does not allow and no such record enters the zone.
C12_RefusedKindNeverProvisioned ==
    /\ [](\A run \in Runs :
            KindRefused(run) =>
                /\ run.pc = "done"
                /\ run.rid = NoId
                /\ run.tid = NoId
                /\ run.dns = "none"
                /\ run.calls = <<>>)
    /\ [](\A l \in Listings : \A rec \in zone[l] :
            rec.type \in listings[l].allowedRecordTypes)
    /\ [][\A r \in 1..Len(rentals') :
            r \notin RentalIds =>
                rentals'[r].dnsRecordType
                    \in listings[rentals'[r].listingId].allowedRecordTypes]_vars

C12_Witness ==
    /\ KindRefused(last)
    /\ last.snap.isVerified
    /\ last.resp = 200
    /\ \E r \in RentalIds : rentals[r].listingId = sessions[last.arg].listingId

\* C13: Verified is terminal.  No step of a verify call, of a listing update
\* (a credential change included) or of a billing event handler makes a
\* verified listing unverified, and the only step that makes a listing
\* verified is a verify call whose verifyOwnership check succeeded.
C13_VerifiedIsTerminal ==
    [][\A l \in Listings :
        /\ listings[l].isVerified => listings'[l].isVerified
        /\ (~listings[l].isVerified /\ listings'[l].isVerified)
                => VerifyListing(l, "ok")]_vars

C13_Witness ==
    /\ last.op = "listingput"
    /\ last.resp = 200
    /\ last.snap.isVerified
    /\ \E l \in Listings :
        /\ listings[l].isVerified
        /\ listings[l].apiCredentialsEncrypted = Encrypt("k2")
    /\ \E r \in RentalIds : rentals[r].status = "CANCELLED"

\* C14: a verify call on a listing that is already verified answers success
\* without constructing a registrar client, without calling verifyOwnership
\* and without changing the listing.
C14_VerifyAgainIsNoOp ==
    [][(last'.op = "verify" /\ last'.snap.isVerified) =>
            /\ last'.resp = 200
            /\ last'.dns = "none"
            /\ last'.calls = <<>>
            /\ listings' = listings]_vars

C14_Witness ==
    /\ last.op = "verify"
    /\ last.snap.isVerified
    /\ last.resp = 200
    /\ \E l \in Listings : listings[l].isVerified /\ listings[l].verificationToken = "null"

\* A TXT record named for the verification host whose value is exactly the
\* token is among the zone's records.
TokenPublished(l, token) ==
    \E rec \in zone[l] :
        /\ rec.type = "TXT"
        /\ Includes(rec.name, VerificationName)
        /\ rec.content = token

\* C15: for every registrar, verifyOwnership(token) on the fetched records
\* succeeds exactly when a TXT record named for the verification host has
\* the token as its value; a value that differs in one character, or of
\* which the token is a strict substring or superstring, gives failure.
C15_ExactTokenMatch ==
    (last.op = "verifyOwnership" /\ last.dns = "ok") =>
        (last.success <=> TokenPublished(last.arg, last.token))


\* C16: a listing is removed only while it has no ACTIVE rental, also when
\* the removal runs alongside a checkout_completed handler for the listing.
C16_NoDeleteWhileActive ==
    [][\A l \in Listings :
        (listings[l].exists /\ ~listings'[l].exists) => ActiveCount(l) = 0]_vars

\* C17: POST /api/rentals opens a checkout session only for a listing that
\* is verified at that moment.
C17_SessionsOnlyForVerified ==
    [][\A s \in 1..Len(sessions') :
        s \notin SessionIds => listings[sessions'[s].listingId].isVerified]_vars

\* The characters of the pattern ^[a-zA-Z0-9]([a-zA-Z0-9-]*[a-zA-Z0-9])?$
PatternLetters ==
    {"a", "b", "c", "d", "e", "f", "g", "h", "i", "j", "k", "l", "m",
     "n", "o", "p", "q", "r", "s", "t", "u", "v", "w", "x", "y", "z",
     "A", "B", "C", "D", "E", "F", "G", "H", "I", "J", "K", "L", "M",
     "N", "O", "P", "Q", "R", "S", "T", "U", "V", "W", "X", "Y", "Z"}

PatternDigits == {"0", "1", "2", "3", "4", "5", "6", "7", "8", "9"}

\* A label the pattern accepts: letters, digits and hyphens only, with no
\* hyphen at either end.
WellFormedLabel(label) ==
    /\ label # <<>>
    /\ \A i \in 1..Len(label) : label[i] \in PatternLetters \cup PatternDigits \cup {"-"}
    /\ label[1] # "-"
    /\ label[Len(label)] # "-"

\* C18: POST /api/rentals opens a checkout session only for a request with a
\* well-formed subdomain label, every required field present and a record
\* kind the listing allows.
C18_ValidatedBeforeCheckout ==
    [][\A s \in 1..Len(sessions') :
        s \notin SessionIds =>
            /\ WellFormedLabel(sessions'[s].subdomain)
            /\ sessions'[s].dnsRecordType # "undefined"
            /\ sessions'[s].dnsRecordValue # "undefined"
            /\ sessions'[s].dnsRecordType
                    \in listings[sessions'[s].listingId].allowedRecordTypes]_vars

\* C19: for every non-empty label the pattern rejects, the availability check
\* answers available: false with the invalid-format reason, whatever the
\* state of the listing (missing, paused, unverified, full), and calls no
\* registrar.
C19_MalformedLabelRejected ==
    (/\ last.op = "availability"
     /\ last.subdomain # <<>>
     /\ ~WellFormedLabel(last.subdomain)) =>
        /\ last.resp = 200
        /\ last.available = FALSE
        /\ last.reason = AvInvalidFormat
        /\ last.calls = <<>>

C19_Witness ==
    /\ last.op = "availability"
    /\ last.subdomain = <<"b", "-">>
    /\ last.reason = AvInvalidFormat
    /\ last.arg = 1
    /\ ~listings[1].exists

\* An availability check of a listing that exists and has at least as many
\* ACTIVE rentals as its maximum.
AtMaximum(run) ==
    /\ run.op = "availability"
    /\ run.subdomain # <<>>
    /\ listings[run.arg].exists
    /\ ActiveCount(run.arg) >= listings[run.arg].maxSubdomainsAllowed

\* C20 as stated: whenever the ACTIVE rental count has reached the maximum,
\* the check answers available: false with the maximum-reached reason.
C20_MaximumReachedWhenever ==
    AtMaximum(last) =>
        /\ last.available = FALSE
        /\ last.reason = AvMaximumReached

\* C20, amended: the same for a well-formed label and a listing whose
\* status is ACTIVE; a malformed label and a listing that is not active are
\* answered with their own reasons first.
C20_MaximumReachedWhenActive ==
    (/\ AtMaximum(last)
     /\ WellFormedLabel(last.subdomain)
     /\ listings[last.arg].status = "ACTIVE") =>
        /\ last.resp = 200
        /\ last.available = FALSE
        /\ last.reason = AvMaximumReached

C20_Witness ==
    /\ AtMaximum(last)
    /\ last.reason = AvMaximumReached
    /\ listings[last.arg].maxSubdomainsAllowed = 1
    /\ ActiveCount(last.arg) = 1
    /\ \A r \in RentalIds :
            rentals[r].status = "ACTIVE" => rentals[r].subdomain # last.subdomain

\* C21: a delivery whose signature header is missing or does not verify is
\* answered 400 at once: no handler starts, no listing, rental, transaction
\* or session changes, the zone is untouched and no registrar call is made.
C21_BadSignatureRejected ==
    [][(\E signature \in {"missing", "invalid"} : WebhookPost(signature)) =>
            /\ UNCHANGED <<listings, rentals, transactions, sessions, zone, inflight, runs>>
            /\ last' # Idle =>
                    /\ last'.op = "webhook"
                    /\ last'.resp = 400
                    /\ last'.calls = <<>>]_vars

C21_Witness ==
    /\ last.op = "webhook"
    /\ last.resp = 400
    /\ \E r \in RentalIds : rentals[r].status = "ACTIVE"
    /\ \E t \in TransactionIds : transactions[t].status = "COMPLETED"

\* C22: a business rejection is answered with status 200: a rental
\* initiation that is turned down (every request here is well-formed, so 400
\* can only be a business rejection), a rental update refused because the
\* rental is not ACTIVE, and a verify call whose ownership check failed.
C22_BusinessRejectionsAre200 ==
    /\ last.op = "initiate" => last.resp # 400
    /\ (last.op = "put" /\ last.snap.status = "CANCELLED") => last.resp = 200
    /\ (last.op = "verify" /\ last.dns = "fail") => last.resp = 200

\* C23: decrypting an output of encrypt gives back the text that was
\* encrypted, and two encrypt calls on the same text give different outputs.
C23_CodecRoundTrip ==
    last.op = "encryption" =>
        /\ last.of # 0 => last.decrypted = last.text
        /\ \A i, j \in DOMAIN last.outputs :
                i # j => last.outputs[i] # last.outputs[j]

C23_Witness ==
    /\ last.op = "encryption"
    /\ Len(last.outputs) = 2
    /\ last.of = 2
    /\ last.text = <<"e'", ":">>
    /\ last.decrypted = last.text

\* C24: a subscription_deleted run on a verified listing calls listRecords
\* with the rental's record type before anything else; when the answer holds
\* a record whose name is the rental's full name or starts with its label,
\* the run goes on to one deleteRecord for such a record, and only then to the
\* status update.  A run that found the listing unverified calls nothing.
SdRuns == {run \in Runs : run.op = "subdeleted" /\ run.rid # NoId}

NamedLikeRental(record, run) ==
    \/ record.name = run.snap.fullDomain
    \/ /\ Len(record.name) >= Len(run.snap.subdomain)
       /\ SubSeq(record.name, 1, Len(run.snap.subdomain)) = run.snap.subdomain

C25_PaymentFailedFrame ==
    /\ [](\A run \in Runs : run.op = "payfailed" => run.calls = <<>>)
    /\ [][\A pi \in 1..MaxSessions : PfStart(pi) =>
            LET paid == {t \in TransactionIds :
                            transactions[t].stripePaymentIntentId = pi}
            IN  /\ UNCHANGED <<listings, rentals, sessions, zone>>
                /\ paid = {} =>
                      /\ UNCHANGED <<transactions, inflight>>
                      /\ last' # Idle => (last'.op = "payfailed" /\ last'.resp = 200)
                /\ paid # {} =>
                      \E t \in paid :
                          /\ transactions'[t].status = "FAILED"
                          /\ transactions' = [transactions EXCEPT ![t].status = "FAILED"]]_vars
    /\ [][PfRental =>
            /\ UNCHANGED <<listings, transactions, sessions, zone>>
            /\ \E run \in BagToSet(inflight) :
                  /\ run.op = "payfailed"
                  /\ run.tid \in TransactionIds
                  /\ LET r == transactions[run.tid].rentalId
                     IN  /\ rentals'[r].status = "CANCELLED"
                         /\ \A other \in RentalIds \ {r} : rentals'[other] = rentals[other]
                         /\ rentals' = [rentals EXCEPT ![r].status = "CANCELLED"]]_vars

C25_Witness ==
    /\ last.op = "payfailed"
    /\ last.tid \in TransactionIds
    /\ transactions[last.tid].status = "FAILED"
    /\ rentals[transactions[last.tid].rentalId].status = "CANCELLED"
    /\ \E r \in RentalIds : rentals[r].status = "ACTIVE"
    /\ zone[1] # {}

\* C26: payment_succeeded sets the transaction of the payment intent, when
\* there is one, COMPLETED and changes nothing else: every rental keeps its
\* status, the zone, the listings and the sessions stay as they were, and no
\* registrar call is made.
C26_PaymentSucceededFrame ==
    [][\A pi \in 1..MaxSessions : PaymentSucceeded(pi) =>
        LET paid == {t \in TransactionIds :
                        transactions[t].stripePaymentIntentId = pi}
        IN  /\ UNCHANGED <<listings, rentals, sessions, zone, inflight>>
            /\ last' # Idle => (last'.op = "paysucceeded" /\ last'.calls = <<>>)
            /\ paid = {} => UNCHANGED transactions
            /\ paid # {} =>
                  \E t \in paid :
                      /\ transactions'[t].status = "COMPLETED"
                      /\ transactions' = [transactions EXCEPT ![t].status = "COMPLETED"]]_vars

C26_Witness ==
    /\ last.op = "paysucceeded"
    /\ last.tid \in TransactionIds
    /\ last.calls = <<>>
    /\ transactions[last.tid].status = "COMPLETED"
    /\ rentals[transactions[last.tid].rentalId].status = "CANCELLED"
    /\ zone[1] # {}

\* C27: a listing that exists holds a verification token exactly while it
\* is unverified: it is created unverified with a token, and the token goes
\* away only in the step that makes the listing verified.
C27_TokenIffUnverified ==
    /\ [](\A l \in Listings :
            listings[l].exists =>
                (listings[l].isVerified <=> listings[l].verificationToken = "null"))
    /\ [][\A l \in Listings :
            (listings[l].exists /\ listings'[l].verificationToken # listings[l].verificationToken)
                => /\ ~listings[l].isVerified
                   /\ listings'[l].isVerified
                   /\ listings'[l].verificationToken = "null"]_vars

C27_Witness ==
    /\ last.op = "verify"
    /\ last.resp = 200
    /\ last.dns = "ok"
    /\ listings[1].exists
    /\ listings[1].isVerified
    /\ listings[1].verificationToken = "null"
    /\ listings[1].apiCredentialsEncrypted = Encrypt("k2")

\* C28: a verify call whose ownership check fails changes nothing: the
\* listing stays unverified with the token it had, and the 400 response names
\* the record to publish, '_domain-verification' of type TXT with the
\* listing's token.  Failing does not stop a later call: whenever a request
\* can be served and the listing is unverified, a verify call whose check
\* succeeds is possible, and it makes the listing verified.
C28_FailedCheckKeepsListing ==
    /\ [][\A l \in Listings :
            (/\ VerifyListing(l, "fail")
             /\ listings[l].exists
             /\ ~listings[l].isVerified)
            => /\ UNCHANGED <<listings, rentals, transactions, sessions, zone, inflight, runs>>
               /\ last' # Idle =>
                    /\ last'.resp = 400
                    /\ last'.calls = <<"verifyOwnership">>
                    /\ last'.target.name = <<"_", "d", "n">>
                    /\ last'.target.type = "TXT"
                    /\ last'.target.content = listings'[l].verificationToken
                    /\ last'.target.content # "null"]_vars
    /\ [][\A l \in Listings :
            (/\ VerifyListing(l, "ok")
             /\ listings[l].exists
             /\ ~listings[l].isVerified)
            => /\ listings'[l].isVerified
               /\ last' # Idle => last'.resp = 200]_vars
    /\ [](\A l \in Listings :
            (CanRun /\ InOrder(l) /\ listings[l].exists /\ ~listings[l].isVerified)
                => ENABLED VerifyListing(l, "ok"))

C28_Witness ==
    /\ last.op = "verify"
    /\ last.resp = 400
    /\ last.dns = "fail"
    /\ last.arg \in Listings
    /\ ~listings[last.arg].isVerified
    /\ last.target.content = listings[last.arg].verificationToken
    /\ listings[last.arg].apiCredentialsEncrypted = Encrypt("k2")

\* An availability check that passed every check before the DNS lookup: a
\* well-formed label, a listing that exists, is ACTIVE and has fewer ACTIVE
\* rentals than its maximum, and no ACTIVE rental of the label.
ReachesLookup(run) ==
    /\ run.op = "availability"
    /\ WellFormedLabel(run.subdomain)
    /\ listings[run.arg].exists
    /\ listings[run.arg].status = "ACTIVE"
    /\ ActiveCount(run.arg) < listings[run.arg].maxSubdomainsAllowed
    /\ \A r \in RentalIds :
            (rentals[r].listingId = run.arg /\ rentals[r].status = "ACTIVE")
                => rentals[r].subdomain # run.subdomain

\* The name `label.domain`, as a string of characters.
Candidate(run) == run.subdomain \o <<".">> \o listings[run.arg].domainName

\* The record's name is the candidate, the candidate with a trailing dot, or
\* begins with `label.`.
NameTaken(record, run) ==
    LET prefix == run.subdomain \o <<".">>
    IN  \/ record.name = Candidate(run)
        \/ record.name = Candidate(run) \o <<".">>
        \/ /\ Len(record.name) >= Len(prefix)
           /\ \A i \in 1..Len(prefix) : record.name[i] = prefix[i]

\* The body of an available: true answer: full name and pricing.
AnswersAvailable(run) ==
    /\ run.resp = 200
    /\ run.available = TRUE
    /\ run.fullDomain = Candidate(run)
    /\ run.price = listings[run.arg].pricePerSubdomain
    /\ run.pricingPeriod = listings[run.arg].pricingPeriod

\* C29 as stated: such a check calls listRecords exactly when the listing is
\* verified, answers available: false exactly when a returned record has a
\* name that is taken, and otherwise answers available with full name and
\* pricing.
C29_LookupIffVerified ==
    ReachesLookup(last) =>
        /\ last.calls = <<"listRecords">> <=> listings[last.arg].isVerified
        /\ last.available = FALSE <=>
                \E i \in DOMAIN last.records : NameTaken(last.records[i], last)
        /\ last.available = FALSE => (last.resp = 200 /\ last.reason = AvDnsConflict)
        /\ last.available = TRUE => AnswersAvailable(last)

\* C29, amended: listRecords is called exactly when the listing is verified
\* and the DNS provider could be constructed, and the answer is available:
\* false exactly when listRecords returned a record whose name is taken and
\* every record returned before it has a name.
C29_LookupIffVerifiedAndConstructed ==
    ReachesLookup(last) =>
        /\ last.calls = <<"listRecords">> <=>
                (listings[last.arg].isVerified /\ last.dns # "throw")
        /\ last.calls \in {<<>>, <<"listRecords">>}
        /\ last.available = FALSE <=>
                \E i \in DOMAIN last.records :
                    /\ NameTaken(last.records[i], last)
                    /\ \A j \in 1..(i - 1) : last.records[j].name # <<>>
        /\ last.available = FALSE => (last.resp = 200 /\ last.reason = AvDnsConflict)
        /\ last.available = TRUE => AnswersAvailable(last)

C29_Witness ==
    /\ ReachesLookup(last)
    /\ last.subdomain = <<"b", "2">>
    /\ last.calls = <<"listRecords">>
    /\ Len(last.records) = 2
    /\ last.records[1].name # <<>>
    /\ ~NameTaken(last.records[1], last)
    /\ last.records[2].name = Candidate(last) \o <<".">>
    /\ last.available = FALSE

\* C30: a lookup that fails (the provider cannot be constructed, listRecords
\* answers success: false, or a record without a name stops the search) does
\* not block: the check answers available, with full name and pricing, as it
\* does when no returned record has a taken name.
C30_FailedLookupNeverBlocks ==
    (ReachesLookup(last) /\ last.dns \in {"throw", "fail", "TypeError"}) =>
        /\ AnswersAvailable(last)
        /\ last.reason = "none"

C30_Witness ==
    /\ ReachesLookup(last)
    /\ last.dns = "TypeError"
    /\ last.available = TRUE
    /\ Len(last.records) = 2
    /\ last.records[1].name = <<>>
    /\ NameTaken(last.records[2], last)


\* C31: validateCredentials never throws and is valid only when its
\* listRecords call succeeded; a creation answers 201 only when it was valid,
\* a step that makes a listing exist is one whose probe was answered, and a
\* creation whose validation failed writes no row.
C31_CreatedOnlyAfterProbe ==
    /\ [](last.op = "create" =>
            /\ ~last.threw
            /\ (last.valid => last.calls = <<"listRecords">> /\ last.listed)
            /\ (last.resp = 201 => last.valid)
            /\ (last.resp = 201 <=> listings[last.arg].exists))
    /\ [][\A l \in Listings, body \in CreateBodies, requestOk \in BOOLEAN :
            CreateListing(l, body, requestOk) =>
                /\ (listings'[l].exists => requestOk)
                /\ (last' # Idle /\ listings'[l].exists => last'.valid /\ last'.listed)
                /\ (~requestOk => listings' = listings)
                /\ (last' # Idle /\ ~last'.valid =>
                        listings' = listings /\ last'.resp = 400)]_vars

C31_Witness ==
    /\ last.op = "create"
    /\ last.resp = 201
    /\ last.calls = <<"listRecords">>
    /\ listings[1].exists
    /\ ~listings[1].isVerified

\* C32: no operation of any client throws; a request that fails gives a
\* result with success false; Namecheap's deleteRecord and updateRecord
\* fail without sending a request.
C32_ClientsNeverThrow ==
    last.op = "provider" =>
        /\ ~last.threw
        /\ (~last.requestOk => ~last.success)
        /\ (last.registrar = "NAMECHEAP" /\ last.method \in {"deleteRecord", "updateRecord"}
                => ~last.success /\ last.requests = 0)

C32_Witness ==
    /\ last.op = "provider"
    /\ last.registrar = "CLOUDFLARE"
    /\ last.method = "deleteRecord"
    /\ ~last.requestOk
    /\ last.requests = 1
    /\ ~last.success
    /\ ~last.threw

CkPersists(proc) ==
    /\ proc.op = "checkout"
    /\ proc.pc = "ck_rental"
    /\ CopiesIn(proc, inflight') < CopiesIn(proc, inflight)
    /\ Len(rentals') = Len(rentals) + 1

CkPersistsMetadata(proc) ==
    LET meta == sessions[proc.arg]
        row == rentals'[Len(rentals')]
    IN  /\ row.listingId = meta.listingId
        /\ row.subdomain = meta.subdomain
        /\ row.fullDomain = meta.fullDomain
        /\ row.dnsRecordType = meta.dnsRecordType
        /\ row.dnsRecordValue = meta.dnsRecordValue
        /\ row.status = "ACTIVE"

\* A step that adds records to a zone is the DNS step of a checkout run that
\* starts in it: the one record added is that of the run's event metadata,
\* the run has made one createRecord call, and no rental is written yet.
CkProvisionsMetadata ==
    \A l \in Listings :
        zone'[l] \ zone[l] # {} =>
            /\ rentals' = rentals
            /\ \E proc \in BagToSet(inflight') :
                /\ CopiesIn(proc, inflight') > CopiesIn(proc, inflight)
                /\ proc.op = "checkout"
                /\ proc.pc = "ck_rental"
                /\ proc.calls = <<"createRecord">>
                /\ sessions[proc.arg].listingId = l
                /\ zone'[l] \ zone[l] = {[name |-> sessions[proc.arg].fullDomain,
                                          type |-> sessions[proc.arg].dnsRecordType,
                                          content |-> sessions[proc.arg].dnsRecordValue]}

\* C33 as stated: every accepted checkout run has issued exactly one
\* createRecord call when it persists its rental, the record is the one of
\* the event metadata, and the rental carries the metadata with status ACTIVE.
C33_OneCreateRecordThenRental ==
    [][/\ CkProvisionsMetadata
       /\ \A proc \in BagToSet(inflight) :
            CkPersists(proc) =>
                /\ proc.calls = <<"createRecord">>
                /\ CkPersistsMetadata(proc)]_vars

\* C33, amended: exactly one createRecord call when the DNS provider could be
\* constructed and none when its construction threw; the rest as stated.
C33_OneCreateRecordUnlessThrown ==
    [][/\ CkProvisionsMetadata
       /\ \A proc \in BagToSet(inflight) :
            CkPersists(proc) =>
                /\ proc.calls = IF proc.dns = "throw" THEN <<>> ELSE <<"createRecord">>
                /\ CkPersistsMetadata(proc)]_vars

C33_Witness ==
    /\ last.op = "checkout"
    /\ last.dns = "ok"
    /\ last.calls = <<"createRecord">>
    /\ last.rid \in RentalIds
    /\ rentals[last.rid].status = "ACTIVE"
    /\ rentals[last.rid].fullDomain = sessions[last.arg].fullDomain
    /\ \E rec \in zone[rentals[last.rid].listingId] :
            /\ rec.name = rentals[last.rid].fullDomain
            /\ rec.type = rentals[last.rid].dnsRecordType
            /\ rec.content = rentals[last.rid].dnsRecordValue


\* C34: the record a subscription_deleted run is about to delete is named by
\* the fully-qualified name of the run's rental.
C34_DeletesOnlyOwnRecord ==
    \A proc \in BagToSet(inflight) :
        (proc.op = "subdeleted" /\ proc.pc = "sd_delete") =>
            proc.target.name = proc.snap.fullDomain


\* C36: the record kind of every ACTIVE rental is one of the kinds its listing
\* allows.
C36_ActiveKindAllowed ==
    \A r \in RentalIds :
        rentals[r].status = "ACTIVE" =>
            rentals[r].dnsRecordType \in listings[rentals[r].listingId].allowedRecordTypes


\* C35: a listing never has more ACTIVE rentals than its maxSubdomainsAllowed.
C35_ActiveWithinMaximum ==
    \A l \in Listings :
        listings[l].exists => ActiveCount(l) <= listings[l].maxSubdomainsAllowed


\* DELETE on an existing rental: the rental is CANCELLED afterwards, whether
\* or not the subscription could be cancelled, nothing else is written, and
\* the run made no registrar call.
CancelFrame ==
    \A id \in RentalIds, stripeOk \in BOOLEAN :
        CancelRental(id, stripeOk) =>
            /\ rentals'[id].status = "CANCELLED"
            /\ rentals' = [rentals EXCEPT ![id].status = "CANCELLED"]
            /\ zone' = zone
            /\ (last' # Idle => last'.calls = <<>> /\ last'.resp = 200)

\* A step that removes the record named by a CANCELLED rental is the
\* deleteRecord of a subscription_deleted run for that rental's subscription.
RemovedByOwnEvent ==
    \A r \in RentalIds :
        \A rec \in zone[rentals[r].listingId] \ zone'[rentals[r].listingId] :
            (rentals[r].status = "CANCELLED" /\ rec.name = rentals[r].fullDomain) =>
                \E proc \in BagToSet(inflight) :
                    /\ proc.op = "subdeleted"
                    /\ proc.pc = "sd_delete"
                    /\ proc.target = rec
                    /\ proc.arg = rentals[r].stripeSubscriptionId

\* C38: DELETE leaves the rental CANCELLED and calls no registrar, and the
\* record of a cancelled rental is removed only by a subscription_deleted run
\* for the rental's own subscription.
C38_CancelledKeepsRecordUntilOwnEvent ==
    [][CancelFrame /\ RemovedByOwnEvent]_vars

====
